---- MODULE Spec2Model ----
(***************************************************************************)
(* Hybrid document retrieval and incremental indexing (servers/rag.py):    *)
(* the BM25 sparse encoder, the index ledger, the vector-store adapter,    *)
(* the per-document indexer, the category scan, the reindex and search     *)
(* tools, and the process lifecycle (startup scan, serving, restart).      *)
(*                                                                         *)
(* A text is a sequence of one-character strings.  A real number that the  *)
(* code holds in a float is kept exactly, as a fraction <<num, den>> with  *)
(* den > 0; a BM25 weight tf_score * sqrt(idf + 1) is kept as the pair of  *)
(* its two factors (float rounding is not modelled).                       *)
(***************************************************************************)
EXTENDS Integers, Sequences, FiniteSets, TLC

\* ------------------------------------------------------------------ bounds
\* runs of _index_document started over one behaviour
MaxRuns == 4
\* edits of files in the documents tree over one behaviour
MaxEdits == 1
\* process restarts over one behaviour
MaxRestarts == 1

\* ------------------------------------------------------- program constants
vocab_size == 30000
\* k1 = 1.5 and b = 0.75, as fractions
k1_num == 3
k1_den == 2
b_num == 3
b_den == 4
\* the prefetch of the hybrid query: max(limit * 4, 20)
prefetch_factor == 4
prefetch_floor == 20

\* --------------------------------------------------------------- utilities
Max(a, b) == IF a >= b THEN a ELSE b

Range(s) == {s[i] : i \in 1..Len(s)}

RECURSIVE SumSeq(_)
SumSeq(s) == IF s = <<>> THEN 0 ELSE Head(s) + SumSeq(Tail(s))

\* ---------------------------------------------------------------- tokenize
AsciiLower == <<"a","b","c","d","e","f","g","h","i","j","k","l","m",
                "n","o","p","q","r","s","t","u","v","w","x","y","z">>
AsciiUpper == <<"A","B","C","D","E","F","G","H","I","J","K","L","M",
                "N","O","P","Q","R","S","T","U","V","W","X","Y","Z">>
AsciiDigit == <<"0","1","2","3","4","5","6","7","8","9">>

\* non-ASCII letters of the model's alphabet: an upper-case one and its
\* lower-case form (str.lower maps the first to the second)
NonAsciiUpper == "É"
NonAsciiLower == "é"

\* str.lower on one character
LowerChar(c) ==
    IF \E i \in 1..26 : AsciiUpper[i] = c
    THEN AsciiLower[CHOOSE i \in 1..26 : AsciiUpper[i] = c]
    ELSE IF c = NonAsciiUpper THEN NonAsciiLower ELSE c

\* the class [a-z0-9] of the token pattern
InTokenClass(c) == c \in Range(AsciiLower) \cup Range(AsciiDigit)

\* \w of a str pattern: letters and digits of any script, and the underscore
IsWordChar(c) ==
    c \in Range(AsciiLower) \cup Range(AsciiUpper) \cup Range(AsciiDigit)
          \cup {"_", NonAsciiUpper, NonAsciiLower}

\* \b at position p (between s[p-1] and s[p]) of the text s
Boundary(s, p) ==
    LET before == p > 1 /\ IsWordChar(s[p - 1])
        after == p <= Len(s) /\ IsWordChar(s[p])
    IN before # after

\* the longest match of \b[a-z0-9]+\b starting at p, as its end position
\* (inclusive), 0 when there is none: the greedy run, then backtracking
\* until a boundary follows
RECURSIVE RunEnd(_, _)
RunEnd(s, p) ==
    IF p <= Len(s) /\ InTokenClass(s[p]) THEN RunEnd(s, p + 1) ELSE p - 1

RECURSIVE BacktrackEnd(_, _, _)
BacktrackEnd(s, p, e) ==
    IF e < p THEN 0
    ELSE IF Boundary(s, e + 1) THEN e ELSE BacktrackEnd(s, p, e - 1)

MatchEnd(s, p) ==
    IF Boundary(s, p) THEN BacktrackEnd(s, p, RunEnd(s, p)) ELSE 0

\* re.findall: leftmost non-overlapping matches, scanning from p
RECURSIVE FindAll(_, _)
FindAll(s, p) ==
    IF p > Len(s) THEN <<>>
    ELSE LET e == MatchEnd(s, p)
         IN IF e = 0 THEN FindAll(s, p + 1)
            ELSE <<SubSeq(s, p, e)>> \o FindAll(s, e + 1)

_tokenize(text) ==
    LET lowered == [i \in 1..Len(text) |-> LowerChar(text[i])]
    IN SelectSeq(FindAll(lowered, 1), LAMBDA t : Len(t) > 1)

\* -------------------------------------------------------------- hash_token
\* the position of a character of [a-z0-9] in a..z0..9
CharCode(c) ==
    IF \E i \in 1..26 : AsciiLower[i] = c
    THEN CHOOSE i \in 1..26 : AsciiLower[i] = c
    ELSE 26 + (CHOOSE i \in 1..10 : AsciiDigit[i] = c)

\* the first four bytes of the token's SHA-256 digest read little-endian: a
\* fixed function of the token into a machine word (a polynomial digest
\* stands for SHA-256, and the word is kept to 24 bits so that the
\* arithmetic stays within 32-bit integers)
RECURSIVE DigestWord(_)
DigestWord(token) ==
    IF token = <<>> THEN 0
    ELSE (DigestWord(SubSeq(token, 1, Len(token) - 1)) * 31
            + CharCode(token[Len(token)])) % 16777216

_hash_token(token) == DigestWord(token) % vocab_size

\* -------------------------------------------------------- corpus statistics
\* BM25SparseEncoder.__init__
NewEncoder ==
    [doc_count |-> 0, doc_freqs |-> <<>>, avg_doc_len |-> <<0, 1>>,
     total_doc_len |-> 0]

\* Counter.get(idx, 0); doc_freqs is a function on the indices counted so far
DocFreq(enc, idx) ==
    IF idx \in DOMAIN enc.doc_freqs THEN enc.doc_freqs[idx] ELSE 0

\* (mutant) an index counted once for every occurrence of its terms
FitOne_CountsRepeats(enc, text) ==
    LET tokens == _tokenize(text)
        idxs == [i \in 1..Len(tokens) |-> _hash_token(tokens[i])]
        seen == DOMAIN enc.doc_freqs \cup Range(idxs)
    IN [enc EXCEPT
          !.doc_count = @ + 1,
          !.total_doc_len = @ + Len(tokens),
          !.doc_freqs = [i \in seen |->
                           DocFreq(enc, i)
                             + Cardinality({k \in 1..Len(idxs) : idxs[k] = i})]]

\* one iteration of the loop of fit_batch
FitOne(enc, text) ==
    LET tokens == _tokenize(text)
        unique_indices == {_hash_token(t) : t \in Range(tokens)}
        seen == DOMAIN enc.doc_freqs \cup unique_indices
    IN [enc EXCEPT
          !.doc_count = @ + 1,
          !.total_doc_len = @ + Len(tokens),
          !.doc_freqs = [i \in seen |->
                           DocFreq(enc, i) + (IF i \in unique_indices THEN 1 ELSE 0)]]

RECURSIVE FitLoop(_, _)
FitLoop(enc, texts) ==
    IF texts = <<>> THEN enc ELSE FitLoop(FitOne(enc, Head(texts)), Tail(texts))

fit_batch(enc, texts) ==
    LET e == FitLoop(enc, texts)
    IN IF e.doc_count > 0
       THEN [e EXCEPT !.avg_doc_len = <<e.total_doc_len, e.doc_count>>]
       ELSE e

\* ------------------------------------------------------------------ encode
\* the keys of term_freqs in insertion order (first occurrence)
RECURSIVE FirstSeen(_, _)
FirstSeen(idxs, acc) ==
    IF idxs = <<>> THEN acc
    ELSE FirstSeen(Tail(idxs),
                   IF Head(idxs) \in Range(acc) THEN acc ELSE Append(acc, Head(idxs)))

Count(idxs, idx) == Cardinality({i \in 1..Len(idxs) : idxs[i] = idx})

\* (mutant) the numerator without tf: (k1 + 1) / (tf + k1 * (...))
tf_score_NoTfNumerator(enc, tf, doc_len) ==
    LET an == enc.avg_doc_len[1]
        ad == enc.avg_doc_len[2]
        mn == IF an > ad THEN an ELSE 1
        md == IF an > ad THEN ad ELSE 1
    IN <<(k1_num + k1_den) * b_den * mn,
         tf * k1_den * b_den * mn
           + k1_num * ((b_den - b_num) * mn + b_num * doc_len * md)>>

\* tf * (k1 + 1) / (tf + k1 * (1 - b + b * doc_len / max(avg_doc_len, 1)))
tf_score(enc, tf, doc_len) ==
    LET an == enc.avg_doc_len[1]
        ad == enc.avg_doc_len[2]
        mn == IF an > ad THEN an ELSE 1
        md == IF an > ad THEN ad ELSE 1
    IN <<tf * (k1_num + k1_den) * b_den * mn,
         tf * k1_den * b_den * mn
           + k1_num * ((b_den - b_num) * mn + b_num * doc_len * md)>>

\* (mutant) the numerator without its smoothing: (doc_count - df) / (df + 0.5)
idf_raw_Unsmoothed(enc, idx) ==
    LET df == DocFreq(enc, idx)
        n == 2 * (enc.doc_count - df)
        d == 2 * df + 1
    IN IF n > 0 THEN <<n, d>> ELSE <<0, 1>>

\* max(0.0, (doc_count - df + 0.5) / (df + 0.5))
idf_raw(enc, idx) ==
    LET df == DocFreq(enc, idx)
        n == 2 * (enc.doc_count - df) + 1
        d == 2 * df + 1
    IN IF n > 0 THEN <<n, d>> ELSE <<0, 1>>

\* the score of one index: the pair of tf_score and the radicand of idf
\* (idf + 1 when idf > 0, else 0); the score is tf_score * sqrt(radicand)
TermScore(enc, tf, doc_len, idx) ==
    LET idf == idf_raw(enc, idx)
    IN [tf |-> tf_score(enc, tf, doc_len),
        idf_sq |-> IF idf[1] > 0 THEN <<idf[1] + idf[2], idf[2]>> ELSE <<0, 1>>]

ScorePositive(v) == v.tf[1] > 0 /\ v.idf_sq[1] > 0

\* sorted(..., key=index): insertion of one pair into a list sorted by index
RECURSIVE InsertSorted(_, _)
InsertSorted(sorted, pair) ==
    IF sorted = <<>> THEN <<pair>>
    ELSE IF pair.index < Head(sorted).index THEN <<pair>> \o sorted
         ELSE <<Head(sorted)>> \o InsertSorted(Tail(sorted), pair)

RECURSIVE SortPairs(_, _)
SortPairs(pairs, acc) ==
    IF pairs = <<>> THEN acc
    ELSE SortPairs(Tail(pairs), InsertSorted(acc, Head(pairs)))

EmptySparse == [indices |-> <<>>, values |-> <<>>]

\* (mutant) the terms no counted document holds are left out
encode_DropUnseen(enc, text) ==
    LET tokens == _tokenize(text)
        idxs == [i \in 1..Len(tokens) |-> _hash_token(tokens[i])]
        keys == FirstSeen(idxs, <<>>)
        scored == [k \in 1..Len(keys) |->
                     [index |-> keys[k],
                      value |-> TermScore(enc, Count(idxs, keys[k]), Len(tokens), keys[k])]]
        kept == SelectSeq(scored, LAMBDA p : ScorePositive(p.value) /\ DocFreq(enc, p.index) > 0)
        sorted_pairs == SortPairs(kept, <<>>)
    IN IF tokens = <<>> THEN EmptySparse
       ELSE [indices |-> [i \in 1..Len(sorted_pairs) |-> sorted_pairs[i].index],
             values |-> [i \in 1..Len(sorted_pairs) |-> sorted_pairs[i].value]]

\* (mutant) the pairs left in the order of term_freqs
encode_Unsorted(enc, text) ==
    LET tokens == _tokenize(text)
        idxs == [i \in 1..Len(tokens) |-> _hash_token(tokens[i])]
        keys == FirstSeen(idxs, <<>>)
        scored == [k \in 1..Len(keys) |->
                     [index |-> keys[k],
                      value |-> TermScore(enc, Count(idxs, keys[k]), Len(tokens), keys[k])]]
        kept == SelectSeq(scored, LAMBDA p : ScorePositive(p.value))
    IN IF tokens = <<>> THEN EmptySparse
       ELSE [indices |-> [i \in 1..Len(kept) |-> kept[i].index],
             values |-> [i \in 1..Len(kept) |-> kept[i].value]]

encode(enc, text) ==
    LET tokens == _tokenize(text)
        idxs == [i \in 1..Len(tokens) |-> _hash_token(tokens[i])]
        keys == FirstSeen(idxs, <<>>)
        scored == [k \in 1..Len(keys) |->
                     [index |-> keys[k],
                      value |-> TermScore(enc, Count(idxs, keys[k]), Len(tokens), keys[k])]]
        kept == SelectSeq(scored, LAMBDA p : ScorePositive(p.value))
        sorted_pairs == SortPairs(kept, <<>>)
    IN IF tokens = <<>> THEN EmptySparse
       ELSE [indices |-> [i \in 1..Len(sorted_pairs) |-> sorted_pairs[i].index],
             values |-> [i \in 1..Len(sorted_pairs) |-> sorted_pairs[i].value]]

encode_query(enc, text) == encode(enc, text)

\* ------------------------------------------------------- the documents tree
X == "X"
Y == "Y"

\* one source file in one category; identity = (category, filename)
Doc(c, f) == [category |-> c, filename |-> f]

\* the files a documents tree of the model may hold; DOMAIN files is the tree
Docs == {Doc(X, "a.pdf"), Doc(X, "b.pdf"), Doc(Y, "a.pdf")}

\* the tree of the indexing specification: one file name in two categories
SmallTree == (Doc(X, "a.pdf") :> "v1") @@ (Doc(Y, "a.pdf") :> "v2")

\* the tree of the search specification: two file names in one category, one
\* of them also in the other category
SearchTree ==
    (Doc(X, "a.pdf") :> "v1") @@ (Doc(X, "b.pdf") :> "v2") @@ (Doc(Y, "a.pdf") :> "v3")

\* a tree with two files in category X and none in category Y
ScanTree == (Doc(X, "a.pdf") :> "v1") @@ (Doc(X, "b.pdf") :> "v2")

\* the same tree with Y/a.pdf a byte-identical copy of X/a.pdf
SearchTreeCopy ==
    (Doc(X, "a.pdf") :> "v1") @@ (Doc(X, "b.pdf") :> "v2") @@ (Doc(Y, "a.pdf") :> "v1")

\* _discover_categories: the subdirectories of the documents path, sorted
_discover_categories == <<X, Y>>

\* category_path.glob("*.pdf") in a tree: the files of the category, in
\* directory order
pdf_files(tree, c) ==
    SelectSeq(<<Doc(X, "a.pdf"), Doc(X, "b.pdf"), Doc(Y, "a.pdf")>>,
              LAMBDA d : d \in tree /\ d.category = c)

\* str(path) of documents_path / category / filename
PathOf(d) == "documents/" \o d.category \o "/" \o d.filename

\* the contents an edit may give a file: a PDF without extractable text and
\* two versions of a policy ("v3" is a further document of the search tree)
Contents == {"blank", "v1", "v2"}

\* compute_file_hash: the SHA-256 hex digest of the bytes (cut to 4 digits)
compute_file_hash(content) ==
    CASE content = "blank" -> "e3b0"
      [] content = "v1" -> "a1f0"
      [] content = "v2" -> "a1f1"
      [] content = "v3" -> "07c9"

\* extract_and_chunk on a file with the given contents: the chunk texts
extract_and_chunk(content) ==
    CASE content = "blank" -> <<>>
      [] content = "v1" -> << <<"a","b"," ","c","d">>, <<"c","d">> >>
      [] content = "v2" -> << <<"e","f">> >>
      [] content = "v3" -> << <<"c","d"," ","g","h">> >>

\* ----------------------------------------------------------------- chunk id
\* str(i) for the ordinals of the model
DecimalDigits == <<"0","1","2","3","4","5","6","7","8","9">>

RECURSIVE Str(_)
Str(i) == IF i < 10 THEN DecimalDigits[i + 1]
          ELSE Str(i \div 10) \o DecimalDigits[(i % 10) + 1]

\* uuid.uuid5(NAMESPACE_DNS, name): a digest of the name, taken as free of
\* collisions
uuid5(name) == <<"uuid5", name>>

\* (mutant) the ordinal left out of the name
chunk_id_NoOrdinal(file_hash, i) == uuid5(file_hash \o "_")

\* str(uuid.uuid5(uuid.NAMESPACE_DNS, f"{file_hash}_{i}"))
chunk_id(file_hash, i) == uuid5(file_hash \o "_" \o Str(i))

\* ------------------------------------------------------------------ ledger
\* (mutant) the lookup made on the path column
is_indexed_ByPath(led, file_hash) == \E r \in led : r.path = file_hash

\* SELECT 1 FROM indexed_documents WHERE file_hash = ?
is_indexed(led, file_hash) == \E r \in led : r.file_hash = file_hash

\* INSERT OR REPLACE ... : file_hash is the primary key
mark_indexed(led, file_hash, path, category, filename, chunk_count, now) ==
    {r \in led : r.file_hash # file_hash}
      \cup {[file_hash |-> file_hash, path |-> path, category |-> category,
             filename |-> filename, chunk_count |-> chunk_count,
             indexed_at |-> now]}

\* DELETE FROM indexed_documents WHERE path = ?
remove_by_path(led, path) == {r \in led : r.path # path}

\* ------------------------------------------------------------ vector store
\* the embedding of a text by the external embedder
Embedding(text) == [of |-> text]

\* the points upsert_chunks builds: the sparse vector only when non-empty
BuildPoints(chunks, embeddings, sparse_vectors) ==
    {[id |-> chunks[i].id,
      vector |-> IF sparse_vectors[i].indices # <<>> /\ sparse_vectors[i].values # <<>>
                 THEN [dense |-> embeddings[i], sparse |-> sparse_vectors[i]]
                 ELSE [dense |-> embeddings[i]],
      payload |-> chunks[i]] : i \in 1..Len(chunks)}

\* client.upsert: a point replaces the stored point of the same id
upsert_chunks(st, chunks, embeddings, sparse_vectors) ==
    LET points == BuildPoints(chunks, embeddings, sparse_vectors)
    IN {p \in st : \A q \in points : q.id # p.id} \cup points

\* client.delete with the filter category = c AND filename = f
delete_by_filename(st, c, f) ==
    {p \in st : ~(p.payload.category = c /\ p.payload.filename = f)}

\* the payloads _index_document prepares
Payloads(file_hash, category, filename, chunks_text) ==
    [i \in 1..Len(chunks_text) |->
       [id |-> chunk_id(file_hash, i - 1), category |-> category,
        filename |-> filename, chunk_index |-> i - 1, content |-> chunks_text[i]]]

\* --------------------------------------------------------------- the state
VARIABLES
    phase,    \* "down", "scan" (_startup indexing), "serving", "disabled"
    files,    \* the contents of each file of the documents tree
    store,    \* the points of the Qdrant collection
    ledger,   \* the rows of indexed_documents
    clock,    \* datetime.now(UTC), as a count of ticks
    enc,      \* _sparse_encoder
    tasks,    \* the coroutines of the process: the startup scan, tool calls
    nruns,    \* runs of _index_document started
    nedits,   \* edits made
    boots,    \* process starts
    search,   \* the call of a search tool in progress
    emptied,  \* history: the files whose last run found no chunks, unedited since
    probe,    \* the values computed by the specifications of the pure functions
    embed     \* the call of embed_batch followed by the embedder specification

vars == <<phase, files, store, ledger, clock, enc, tasks, nruns, nedits, boots, search,
          emptied, probe, embed>>

Tasks == {1, 2}

NoDoc == [category |-> "", filename |-> ""]
NoResult == [success |-> FALSE, error |-> "", chunks_indexed |-> 0]

\* a free coroutine slot (prior, had, last, failed, category and done are
\* history: the hashes the ledger held for the path when the run began, the
\* documents that had a record when their run began, the outcome of the last
\* run, the documents whose run raised, the category of the scan and the
\* outcome of each of its runs in order)
IdleTask ==
    [kind |-> "none", pc |-> "idle", cats |-> <<>>, queue |-> <<>>,
     total_chunks |-> 0, doc |-> NoDoc, file_hash |-> "", force |-> FALSE,
     chunks_text |-> <<>>, sparse_vectors |-> <<>>, result |-> NoResult,
     prior |-> {}, had |-> {}, last |-> "", failed |-> {},
     category |-> "", done |-> <<>>]

\* no search call in progress
IdleSearch ==
    [pc |-> "idle", category |-> "", query |-> <<>>, document |-> "", limit |-> 0,
     min_similarity |-> 0, sparse_query |-> EmptySparse, request |-> <<>>,
     hits |-> {}, result |-> NoResult]

\* no call of embed_batch in progress (log is history: the requests posted
\* and the waits made by the call, in order)
IdleEmbed ==
    [pc |-> "idle", texts |-> <<>>, attempt |-> 0, last_error |-> "", log |-> <<>>,
     result |-> <<>>, error |-> ""]

\* _ready
_ready == phase \in {"scan", "serving"}

\* _require_ready: the components, or the RuntimeError
_require_ready ==
    IF _ready THEN "components" ELSE "RuntimeError: RAG subsystem not initialized"

\* the tools registered with mcp: lines 868-875 follow _ready = True
registered_tools ==
    IF _ready
    THEN {<<"rag_list_categories">>}
           \cup {<<tool, c>> : tool \in {"rag_search", "rag_list", "rag_reindex"},
                               c \in Range(_discover_categories)}
    ELSE {}

Init ==
    /\ phase = "down"
    /\ files = SmallTree
    /\ store = {}
    /\ ledger = {}
    /\ clock = 0
    /\ enc = NewEncoder
    /\ tasks = [t \in Tasks |-> IdleTask]
    /\ nruns = 0
    /\ nedits = 0
    /\ boots = 0
    /\ search = IdleSearch
    /\ emptied = {}
    /\ probe = <<>>
    /\ embed = IdleEmbed

\* ----------------------------------------------------------- the lifecycle
\* _startup to the end of the component initialisation: ready, tools
\* registered, the startup indexing about to begin
StartupOk ==
    /\ phase = "down" /\ boots <= MaxRestarts
    /\ phase' = "scan"
    /\ boots' = boots + 1
    /\ enc' = NewEncoder
    /\ tasks' = [tasks EXCEPT ![1] =
                   [IdleTask EXCEPT !.kind = "startup", !.pc = "cats",
                                    !.cats = _discover_categories]]
    /\ UNCHANGED <<files, store, ledger, clock, nruns, nedits, search, emptied, probe, embed>>

\* (mutant) the startup goes on to its scan after printing "disabled"
StartupQdrantDown_GoesOn ==
    /\ phase = "down" /\ boots <= MaxRestarts
    /\ phase' = "disabled"
    /\ boots' = boots + 1
    /\ enc' = NewEncoder
    /\ tasks' = [tasks EXCEPT ![1] =
                   [IdleTask EXCEPT !.kind = "startup", !.pc = "cats",
                                    !.cats = _discover_categories]]
    /\ UNCHANGED <<files, store, ledger, clock, nruns, nedits, search, emptied, probe, embed>>

\* _startup when ensure_collection raises: disabled, _ready stays False
StartupQdrantDown ==
    /\ phase = "down" /\ boots <= MaxRestarts
    /\ phase' = "disabled"
    /\ boots' = boots + 1
    /\ enc' = NewEncoder
    /\ UNCHANGED <<files, store, ledger, clock, tasks, nruns, nedits, search, emptied, probe, embed>>

\* _startup when tracker.initialize raises: the error leaves run(), the
\* process ends
StartupLedgerFail ==
    /\ phase = "down" /\ boots <= MaxRestarts
    /\ boots' = boots + 1
    /\ UNCHANGED <<phase, files, store, ledger, clock, enc, tasks, nruns, nedits, search, emptied, probe, embed>>

\* the process stops (shutdown, crash, kill): every coroutine is gone and so
\* is the encoder; the collection, the ledger and the files stay
Kill ==
    /\ phase # "down"
    /\ phase' = "down"
    /\ tasks' = [t \in Tasks |-> IdleTask]
    /\ enc' = NewEncoder
    /\ search' = IdleSearch
    /\ UNCHANGED <<files, store, ledger, clock, nruns, nedits, boots, emptied, probe, embed>>

\* somebody replaces a file of the documents tree
Edit(d, c) ==
    /\ nedits < MaxEdits
    /\ c # files[d]
    /\ files' = [files EXCEPT ![d] = c]
    /\ nedits' = nedits + 1
    /\ emptied' = emptied \ {d}
    /\ UNCHANGED <<phase, store, ledger, clock, enc, tasks, nruns, boots, search, probe, embed>>

\* ------------------------------------------------------- _index_document
\* (mutant) the ledger is asked also when force is set
BeginRun_ChecksFirst(task, d, force) ==
    [task EXCEPT
       !.doc = d,
       !.file_hash = compute_file_hash(files[d]),
       !.force = force,
       !.pc = "check",
       !.chunks_text = <<>>,
       !.sparse_vectors = <<>>,
       !.prior = {r.file_hash : r \in {q \in ledger : q.path = PathOf(d)}},
       !.had = IF \E q \in ledger : q.path = PathOf(d) THEN @ \cup {d} ELSE @]

\* the call of _index_document up to its first await: the hash of the file
\* as it is now; is_indexed is awaited only when force is not set
BeginRun(task, d, force) ==
    [task EXCEPT
       !.doc = d,
       !.file_hash = compute_file_hash(files[d]),
       !.force = force,
       !.pc = IF force THEN "delete" ELSE "check",
       !.chunks_text = <<>>,
       !.sparse_vectors = <<>>,
       !.prior = {r.file_hash : r \in {q \in ledger : q.path = PathOf(d)}},
       !.had = IF \E q \in ledger : q.path = PathOf(d) THEN @ \cup {d} ELSE @]

\* (mutant) an error of one document ends the loop over the files
AfterRun_AbortsScan(task, how, chunks, raised) ==
    LET t1 == [task EXCEPT !.last = how, !.chunks_text = <<>>,
                           !.sparse_vectors = <<>>]
    IN IF task.kind = "reindex_doc"
       THEN [t1 EXCEPT !.pc = "returned",
                       !.result = IF raised
                                  THEN [success |-> FALSE, error |-> "raised",
                                        chunks_indexed |-> 0]
                                  ELSE [success |-> TRUE, error |-> "",
                                        chunks_indexed |-> chunks]]
       ELSE [t1 EXCEPT !.pc = "loop",
                       !.queue = IF raised THEN <<>> ELSE @,
                       !.total_chunks = IF raised THEN @ ELSE @ + chunks,
                       !.failed = IF raised THEN @ \cup {task.doc} ELSE @,
                       !.done = Append(@, [doc |-> task.doc, how |-> how,
                                           chunks |-> IF raised THEN 0 ELSE chunks])]

\* what follows the end of a run: the tool call of one document answers (an
\* error leaves the tool), the loop of _index_category adds the count, or
\* prints the error, and goes on
AfterRun(task, how, chunks, raised) ==
    LET t1 == [task EXCEPT !.last = how, !.chunks_text = <<>>,
                           !.sparse_vectors = <<>>]
    IN IF task.kind = "reindex_doc"
       THEN [t1 EXCEPT !.pc = "returned",
                       !.result = IF raised
                                  THEN [success |-> FALSE, error |-> "raised",
                                        chunks_indexed |-> 0]
                                  ELSE [success |-> TRUE, error |-> "",
                                        chunks_indexed |-> chunks]]
       ELSE [t1 EXCEPT !.pc = "loop",
                       !.total_chunks = IF raised THEN @ ELSE @ + chunks,
                       !.failed = IF raised THEN @ \cup {task.doc} ELSE @,
                       !.done = Append(@, [doc |-> task.doc, how |-> how,
                                           chunks |-> IF raised THEN 0 ELSE chunks])]

\* line 614: the hash is in the ledger and force is not set: return 0
CheckIndexed(t) ==
    /\ tasks[t].pc = "check"
    /\ IF is_indexed(ledger, tasks[t].file_hash)
       THEN tasks' = [tasks EXCEPT ![t] = AfterRun(@, "skipped", 0, FALSE)]
       ELSE tasks' = [tasks EXCEPT ![t].pc = "delete"]
    /\ UNCHANGED <<phase, files, store, ledger, clock, enc, nruns, nedits, boots, search, emptied, probe, embed>>

\* (mutant) the purge takes a document back out of the statistics
DeleteOld_RollsBack(t) ==
    /\ tasks[t].pc = "delete"
    /\ store' = delete_by_filename(store, tasks[t].doc.category, tasks[t].doc.filename)
    /\ enc' = [enc EXCEPT !.doc_count = IF @ > 0 THEN @ - 1 ELSE 0]
    /\ tasks' = [tasks EXCEPT ![t].pc = "remove"]
    /\ UNCHANGED <<phase, files, ledger, clock, nruns, nedits, boots, search, emptied, probe, embed>>

\* line 618: await vectors.delete_by_filename(category, filename)
DeleteOld(t) ==
    /\ tasks[t].pc = "delete"
    /\ store' = delete_by_filename(store, tasks[t].doc.category, tasks[t].doc.filename)
    /\ tasks' = [tasks EXCEPT ![t].pc = "remove"]
    /\ UNCHANGED <<phase, files, ledger, clock, enc, nruns, nedits, boots, search, emptied, probe, embed>>

\* line 619: await tracker.remove_by_path(str(path))
RemoveOld(t) ==
    /\ tasks[t].pc = "remove"
    /\ ledger' = remove_by_path(ledger, PathOf(tasks[t].doc))
    /\ tasks' = [tasks EXCEPT ![t].pc = "extract"]
    /\ UNCHANGED <<phase, files, store, clock, enc, nruns, nedits, boots, search, emptied, probe, embed>>

\* (mutant) a run that finds no chunks records the file in the ledger
Extract_RecordsEmpty(t) ==
    /\ tasks[t].pc = "extract"
    /\ LET chunks_text == extract_and_chunk(files[tasks[t].doc])
           fitted == fit_batch(enc, chunks_text)
       IN IF chunks_text = <<>>
          THEN /\ tasks' = [tasks EXCEPT ![t] = AfterRun(@, "empty", 0, FALSE)]
               /\ enc' = enc
               /\ emptied' = emptied \cup {tasks[t].doc}
               /\ ledger' = mark_indexed(ledger, tasks[t].file_hash, PathOf(tasks[t].doc),
                                         tasks[t].doc.category, tasks[t].doc.filename,
                                         0, clock)
          ELSE /\ enc' = fitted
               /\ emptied' = emptied
               /\ ledger' = ledger
               /\ tasks' = [tasks EXCEPT
                    ![t].pc = "embed",
                    ![t].chunks_text = chunks_text,
                    ![t].sparse_vectors =
                       [i \in 1..Len(chunks_text) |-> encode(fitted, chunks_text[i])]]
    /\ UNCHANGED <<phase, files, store, clock, nruns, nedits, boots, search, probe, embed>>

\* (mutant) the statistics left with the first chunk of the batch counted,
\* the average not yet computed, when the run goes on
Extract_PartialFit(t) ==
    /\ tasks[t].pc = "extract"
    /\ LET chunks_text == extract_and_chunk(files[tasks[t].doc])
           fitted == FitOne(enc, Head(chunks_text))
       IN IF chunks_text = <<>>
          THEN /\ tasks' = [tasks EXCEPT ![t] = AfterRun(@, "empty", 0, FALSE)]
               /\ enc' = enc
               /\ emptied' = emptied \cup {tasks[t].doc}
          ELSE /\ enc' = fitted
               /\ emptied' = emptied
               /\ tasks' = [tasks EXCEPT
                    ![t].pc = "embed",
                    ![t].chunks_text = chunks_text,
                    ![t].sparse_vectors =
                       [i \in 1..Len(chunks_text) |-> encode(fitted, chunks_text[i])]]
    /\ UNCHANGED <<phase, files, store, ledger, clock, nruns, nedits, boots, search, probe, embed>>

\* (mutant) the chunks encoded before fit_batch has counted them
Extract_EncodeBeforeFit(t) ==
    /\ tasks[t].pc = "extract"
    /\ LET chunks_text == extract_and_chunk(files[tasks[t].doc])
           fitted == fit_batch(enc, chunks_text)
       IN IF chunks_text = <<>>
          THEN /\ tasks' = [tasks EXCEPT ![t] = AfterRun(@, "empty", 0, FALSE)]
               /\ enc' = enc
               /\ emptied' = emptied \cup {tasks[t].doc}
          ELSE /\ enc' = fitted
               /\ emptied' = emptied
               /\ tasks' = [tasks EXCEPT
                    ![t].pc = "embed",
                    ![t].chunks_text = chunks_text,
                    ![t].sparse_vectors =
                       [i \in 1..Len(chunks_text) |-> encode(enc, chunks_text[i])]]
    /\ UNCHANGED <<phase, files, store, ledger, clock, nruns, nedits, boots, search, probe, embed>>

\* lines 622-629: the extraction reads the file as it is now; no chunks:
\* return 0; else fit_batch, then encode of every chunk, with no await
Extract(t) ==
    /\ tasks[t].pc = "extract"
    /\ LET chunks_text == extract_and_chunk(files[tasks[t].doc])
           fitted == fit_batch(enc, chunks_text)
       IN IF chunks_text = <<>>
          THEN /\ tasks' = [tasks EXCEPT ![t] = AfterRun(@, "empty", 0, FALSE)]
               /\ enc' = enc
               /\ emptied' = emptied \cup {tasks[t].doc}
          ELSE /\ enc' = fitted
               /\ emptied' = emptied
               /\ tasks' = [tasks EXCEPT
                    ![t].pc = "embed",
                    ![t].chunks_text = chunks_text,
                    ![t].sparse_vectors =
                       [i \in 1..Len(chunks_text) |-> encode(fitted, chunks_text[i])]]
    /\ UNCHANGED <<phase, files, store, ledger, clock, nruns, nedits, boots, search, probe, embed>>

\* line 632: await embeddings.embed_batch(chunks_text) returns the vectors
Embed(t) ==
    /\ tasks[t].pc = "embed"
    /\ tasks' = [tasks EXCEPT ![t].pc = "upsert"]
    /\ UNCHANGED <<phase, files, store, ledger, clock, enc, nruns, nedits, boots, search, emptied, probe, embed>>

\* lines 634-650: the payloads, then one upsert of all the chunks
Upsert(t) ==
    /\ tasks[t].pc = "upsert"
    /\ LET task == tasks[t]
           chunks == Payloads(task.file_hash, task.doc.category, task.doc.filename,
                              task.chunks_text)
           chunk_embeddings == [i \in 1..Len(task.chunks_text) |->
                                  Embedding(task.chunks_text[i])]
       IN store' = upsert_chunks(store, chunks, chunk_embeddings, task.sparse_vectors)
    /\ tasks' = [tasks EXCEPT ![t].pc = "mark"]
    /\ UNCHANGED <<phase, files, ledger, clock, enc, nruns, nedits, boots, search, emptied, probe, embed>>

\* lines 651-653: mark_indexed, then return len(chunks)
Mark(t) ==
    /\ tasks[t].pc = "mark"
    /\ LET task == tasks[t]
       IN /\ ledger' = mark_indexed(ledger, task.file_hash, PathOf(task.doc),
                                    task.doc.category, task.doc.filename,
                                    Len(task.chunks_text), clock + 1)
          /\ tasks' = [tasks EXCEPT ![t] = AfterRun(@, "indexed", Len(task.chunks_text), FALSE)]
    /\ clock' = clock + 1
    /\ emptied' = emptied \ {tasks[t].doc}
    /\ UNCHANGED <<phase, files, store, enc, nruns, nedits, boots, search, probe, embed>>

\* the awaited call of the current step raises (a ledger or vector-store
\* error, an extraction error, the embedder's retries exhausted) and has no
\* effect
Raise(t) ==
    /\ tasks[t].pc \in {"check", "delete", "remove", "extract", "embed", "upsert", "mark"}
    /\ tasks' = [tasks EXCEPT ![t] = AfterRun(@, "raised", 0, TRUE)]
    /\ UNCHANGED <<phase, files, store, ledger, clock, enc, nruns, nedits, boots, search, emptied, probe, embed>>

\* ------------------------------------------------------- _index_category
\* the head of the loop over pdf_files: the next document, or the return of
\* total_chunks (to _startup, or as the answer of the reindex tool)
Loop(t) ==
    /\ tasks[t].pc = "loop"
    /\ LET task == tasks[t]
       IN IF task.queue # <<>>
          THEN /\ nruns < MaxRuns
               /\ tasks' = [tasks EXCEPT ![t] =
                              BeginRun([task EXCEPT !.queue = Tail(task.queue)],
                                       Head(task.queue), task.kind = "reindex_cat")]
               /\ nruns' = nruns + 1
          ELSE /\ tasks' = [tasks EXCEPT ![t] =
                              IF task.kind = "startup"
                              THEN [task EXCEPT !.pc = "cats"]
                              ELSE [task EXCEPT
                                      !.pc = "returned",
                                      !.result = [success |-> TRUE, error |-> "",
                                                  chunks_indexed |-> task.total_chunks]]]
               /\ nruns' = nruns
    /\ UNCHANGED <<phase, files, store, ledger, clock, enc, nedits, boots, search, emptied, probe, embed>>

\* _startup, lines 877-883: the loop over the categories, then serving
StartupScan ==
    /\ phase = "scan" /\ tasks[1].pc = "cats"
    /\ LET task == tasks[1]
       IN IF task.cats # <<>>
          THEN /\ tasks' = [tasks EXCEPT ![1] =
                              [task EXCEPT !.pc = "loop", !.total_chunks = 0,
                                           !.category = Head(task.cats), !.done = <<>>,
                                           !.queue = pdf_files(DOMAIN files, Head(task.cats)),
                                           !.cats = Tail(task.cats)]]
               /\ phase' = phase
          ELSE /\ tasks' = [tasks EXCEPT ![1] = IdleTask]
               /\ phase' = "serving"
    /\ UNCHANGED <<files, store, ledger, clock, enc, nruns, nedits, boots, search, emptied, probe, embed>>

\* ------------------------------------------------------------ reindex tool
\* a call takes the first free coroutine slot (which slot is immaterial)
FreeSlot(t) ==
    tasks[t].pc = "idle" /\ \A u \in Tasks : u < t => tasks[u].pc # "idle"

\* rag_reindex_<category>(document): _index_document with force=True
ReindexDocument(t, d) ==
    /\ phase = "serving" /\ FreeSlot(t)
    /\ nruns < MaxRuns
    /\ tasks' = [tasks EXCEPT ![t] =
                   BeginRun([IdleTask EXCEPT !.kind = "reindex_doc"], d, TRUE)]
    /\ nruns' = nruns + 1
    /\ UNCHANGED <<phase, files, store, ledger, clock, enc, nedits, boots, search, emptied, probe, embed>>

\* rag_reindex_<category>(): _index_category with force=True
ReindexCategory(t, c) ==
    /\ phase = "serving" /\ FreeSlot(t)
    /\ tasks' = [tasks EXCEPT ![t] =
                   [IdleTask EXCEPT !.kind = "reindex_cat", !.pc = "loop",
                                    !.category = c,
                                    !.queue = pdf_files(DOMAIN files, c)]]
    /\ UNCHANGED <<phase, files, store, ledger, clock, enc, nruns, nedits, boots, search, emptied, probe, embed>>

\* the answer of a tool call reaches its caller
Reply(t) ==
    /\ tasks[t].pc = "returned"
    /\ tasks' = [tasks EXCEPT ![t] = IdleTask]
    /\ UNCHANGED <<phase, files, store, ledger, clock, enc, nruns, nedits, boots, search, emptied, probe, embed>>

\* ---------------------------------------------------------------- search
\* the query texts of the model: no token of two characters, a term of the
\* corpus, a term no document holds
Queries == { <<"c">>, <<"c","d">>, <<"z","z">> }

\* the document arguments: None, and two file names
DocumentArgs == {"", "a.pdf", "b.pdf"}

\* limit: the default cut to the model's size, and one above prefetch_floor / 4
Limits == {1, 6}

\* min_similarity, in hundredths: the default 0.3 and 0.7
MinSimilarities == {30, 70}

\* the must conditions of RAGVectorStore.search: a condition per truthy
\* argument (an empty set is query_filter = None)
QueryFilter(category, filename) ==
    (IF category # "" THEN {[key |-> "category", value |-> category]} ELSE {})
      \cup (IF filename # "" THEN {[key |-> "filename", value |-> filename]} ELSE {})

\* (mutant) the filter left off the sparse prefetch
SearchRequest_UnfilteredSparse(query_embedding, sparse_query, category, filename, limit, min_score) ==
    LET query_filter == QueryFilter(category, filename)
        prefetch_limit == Max(limit * prefetch_factor, prefetch_floor)
    IN IF sparse_query.indices # <<>> /\ sparse_query.values # <<>>
       THEN [prefetch |-> <<[query |-> query_embedding, using |-> "dense",
                             filter |-> query_filter, limit |-> prefetch_limit],
                            [query |-> sparse_query, using |-> "sparse",
                             filter |-> {}, limit |-> prefetch_limit]>>,
             query |-> "rrf", using |-> "", query_filter |-> {}, limit |-> limit,
             score_threshold |-> -1]
       ELSE [prefetch |-> <<>>, query |-> query_embedding, using |-> "dense",
             query_filter |-> query_filter, limit |-> limit,
             score_threshold |-> min_score]

\* (mutant) the score threshold passed to the fused query as well
SearchRequest_ThresholdAlways(query_embedding, sparse_query, category, filename, limit, min_score) ==
    LET query_filter == QueryFilter(category, filename)
        prefetch_limit == Max(limit * prefetch_factor, prefetch_floor)
    IN IF sparse_query.indices # <<>> /\ sparse_query.values # <<>>
       THEN [prefetch |-> <<[query |-> query_embedding, using |-> "dense",
                             filter |-> query_filter, limit |-> prefetch_limit],
                            [query |-> sparse_query, using |-> "sparse",
                             filter |-> query_filter, limit |-> prefetch_limit]>>,
             query |-> "rrf", using |-> "", query_filter |-> {}, limit |-> limit,
             score_threshold |-> min_score]
       ELSE [prefetch |-> <<>>, query |-> query_embedding, using |-> "dense",
             query_filter |-> query_filter, limit |-> limit,
             score_threshold |-> min_score]

\* RAGVectorStore.search: the query_points request it sends
SearchRequest(query_embedding, sparse_query, category, filename, limit, min_score) ==
    LET query_filter == QueryFilter(category, filename)
        prefetch_limit == Max(limit * prefetch_factor, prefetch_floor)
    IN IF sparse_query.indices # <<>> /\ sparse_query.values # <<>>
       THEN [prefetch |-> <<[query |-> query_embedding, using |-> "dense",
                             filter |-> query_filter, limit |-> prefetch_limit],
                            [query |-> sparse_query, using |-> "sparse",
                             filter |-> query_filter, limit |-> prefetch_limit]>>,
             query |-> "rrf", using |-> "", query_filter |-> {}, limit |-> limit,
             score_threshold |-> -1]
       ELSE [prefetch |-> <<>>, query |-> query_embedding, using |-> "dense",
             query_filter |-> query_filter, limit |-> limit,
             score_threshold |-> min_score]

\* --- the vector store's side of query_points
\* cosine similarity of two embeddings, in hundredths: the embedder is
\* taken to place texts by the characters they are written with
Cosine(e1, e2) ==
    LET t1 == Range(e1.of)
        t2 == Range(e2.of)
    IN IF t1 = t2 THEN 100 ELSE IF t1 \cap t2 # {} THEN 60 ELSE 20

Matches(p, filter) == \A cond \in filter : p.payload[cond.key] = cond.value

\* the n best of a candidate set: any n of them when nothing ranks them
TopSets(cands, n) ==
    {S \in SUBSET cands : Cardinality(S) = IF Cardinality(cands) < n
                                           THEN Cardinality(cands) ELSE n}

\* the candidates of one prefetch: the points passing its filter that hold
\* the vector it uses (for the sparse vector: sharing an index with the query)
PrefetchCandidates(st, pf) ==
    {p \in st :
       /\ Matches(p, pf.filter)
       /\ pf.using \in DOMAIN p.vector
       /\ pf.using = "sparse" =>
             Range(p.vector.sparse.indices) \cap Range(pf.query.indices) # {}}

\* the sets of points a request may be answered with
QueryPoints(st, req) ==
    IF req.prefetch # <<>>
    THEN {H \in SUBSET st :
            \E d \in TopSets(PrefetchCandidates(st, req.prefetch[1]), req.prefetch[1].limit),
               sp \in TopSets(PrefetchCandidates(st, req.prefetch[2]), req.prefetch[2].limit) :
               H \in TopSets(d \cup sp, req.limit)}
    ELSE LET cands == {p \in st : /\ Matches(p, req.query_filter)
                                  /\ Cosine(req.query, p.vector.dense) >= req.score_threshold}
         IN {H \in TopSets(cands, req.limit) :
               \A p \in H, q \in cands \ H :
                  Cosine(req.query, p.vector.dense) >= Cosine(req.query, q.vector.dense)}

\* --- the search tool
\* rag_search_<category>: the call, up to the await of embeddings.embed
SearchCall(c, q, document, limit, min_similarity) ==
    /\ phase = "serving" /\ search.pc = "idle"
    /\ search' = [IdleSearch EXCEPT !.pc = "embed", !.category = c, !.query = q,
                                    !.document = document, !.limit = limit,
                                    !.min_similarity = min_similarity]
    /\ UNCHANGED <<phase, files, store, ledger, clock, enc, tasks, nruns, nedits, boots, emptied, probe, embed>>

\* the embedding arrives: encode_query, then the request of vectors.search
SearchEncode ==
    /\ search.pc = "embed"
    /\ LET query_embedding == Embedding(search.query)
           sparse_query == encode_query(enc, search.query)
       IN search' = [search EXCEPT
                       !.pc = "query",
                       !.sparse_query = sparse_query,
                       !.request = SearchRequest(query_embedding, sparse_query,
                                                 search.category, search.document,
                                                 search.limit, search.min_similarity)]
    /\ UNCHANGED <<phase, files, store, ledger, clock, enc, tasks, nruns, nedits, boots, emptied, probe, embed>>

\* the vector store answers; the tool shapes the hits into its result
SearchAnswer ==
    /\ search.pc = "query"
    /\ \E H \in QueryPoints(store, search.request) :
          search' = [search EXCEPT
                       !.pc = "returned",
                       !.hits = H,
                       !.result = [success |-> TRUE, error |-> "",
                                   chunks_indexed |-> 0]]
    /\ UNCHANGED <<phase, files, store, ledger, clock, enc, tasks, nruns, nedits, boots, emptied, probe, embed>>

\* the embedder or the vector store raises: the error leaves the tool
SearchRaise ==
    /\ search.pc \in {"embed", "query"}
    /\ search' = [search EXCEPT !.pc = "returned",
                                !.result = [success |-> FALSE, error |-> "raised",
                                            chunks_indexed |-> 0]]
    /\ UNCHANGED <<phase, files, store, ledger, clock, enc, tasks, nruns, nedits, boots, emptied, probe, embed>>

\* the answer of the search reaches its caller
SearchReply ==
    /\ search.pc = "returned"
    /\ search' = IdleSearch
    /\ UNCHANGED <<phase, files, store, ledger, clock, enc, tasks, nruns, nedits, boots, emptied, probe, embed>>

\* ------------------------------------------------------ the specifications
\* indexing: the startup scan, then concurrent reindex calls of single
\* documents, with edits, errors and restarts
Next ==
    \/ StartupOk
    \/ StartupQdrantDown
    \/ StartupLedgerFail
    \/ Kill
    \/ \E d \in DOMAIN files, c \in Contents : Edit(d, c)
    \/ StartupScan
    \/ \E t \in Tasks : Loop(t)
    \/ \E t \in Tasks : CheckIndexed(t)
    \/ \E t \in Tasks : DeleteOld(t)
    \/ \E t \in Tasks : RemoveOld(t)
    \/ \E t \in Tasks : Extract(t)
    \/ \E t \in Tasks : Embed(t)
    \/ \E t \in Tasks : Upsert(t)
    \/ \E t \in Tasks : Mark(t)
    \/ \E t \in Tasks : Raise(t)
    \/ \E t \in Tasks, d \in DOMAIN files : ReindexDocument(t, d)
    \/ \E t \in Tasks : Reply(t)

Spec == Init /\ [][Next]_vars

\* search: the startup scan of a larger tree, then searches interleaved with
\* the reindex calls of one coroutine
InitSearch ==
    /\ phase = "down"
    /\ files \in {SearchTree, SearchTreeCopy}
    /\ store = {}
    /\ ledger = {}
    /\ clock = 0
    /\ enc = NewEncoder
    /\ tasks = [t \in Tasks |-> IdleTask]
    /\ nruns = 0
    /\ nedits = 0
    /\ boots = 0
    /\ search = IdleSearch
    /\ emptied = {}
    /\ probe = <<>>
    /\ embed = IdleEmbed

NextSearch ==
    \/ StartupOk
    \/ StartupScan
    \/ Loop(1)
    \/ CheckIndexed(1)
    \/ DeleteOld(1)
    \/ RemoveOld(1)
    \/ Extract(1)
    \/ Embed(1)
    \/ Upsert(1)
    \/ Mark(1)
    \/ \E d \in DOMAIN files : ReindexDocument(1, d)
    \/ \E c \in Range(_discover_categories) : ReindexCategory(1, c)
    \/ Reply(1)
    \/ \E c \in Range(_discover_categories), q \in Queries, document \in DocumentArgs,
          limit \in Limits, min_similarity \in MinSimilarities :
          SearchCall(c, q, document, limit, min_similarity)
    \/ SearchEncode
    \/ SearchAnswer
    \/ SearchRaise
    \/ SearchReply

SearchSpec == InitSearch /\ [][NextSearch]_vars
\* a client that makes one tool call at a time, on a tree whose category X
\* holds two files, with the startup failures and the errors of the awaited
\* calls
InitScan ==
    /\ phase = "down"
    /\ files = ScanTree
    /\ store = {}
    /\ ledger = {}
    /\ clock = 0
    /\ enc = NewEncoder
    /\ tasks = [t \in Tasks |-> IdleTask]
    /\ nruns = 0
    /\ nedits = 0
    /\ boots = 0
    /\ search = IdleSearch
    /\ emptied = {}
    /\ probe = <<>>
    /\ embed = IdleEmbed

NextScan ==
    \/ StartupOk
    \/ StartupQdrantDown
    \/ StartupLedgerFail
    \/ StartupScan
    \/ Loop(1) \/ CheckIndexed(1) \/ DeleteOld(1) \/ RemoveOld(1) \/ Extract(1)
    \/ Embed(1) \/ Upsert(1) \/ Mark(1) \/ Raise(1)
    \/ \E d \in DOMAIN files : search.pc = "idle" /\ ReindexDocument(1, d)
    \/ \E c \in Range(_discover_categories) : search.pc = "idle" /\ ReindexCategory(1, c)
    \/ Reply(1)
    \/ \E c \in Range(_discover_categories), q \in Queries, document \in DocumentArgs,
          limit \in Limits, min_similarity \in MinSimilarities :
          tasks[1].pc = "idle" /\ SearchCall(c, q, document, limit, min_similarity)
    \/ SearchEncode
    \/ SearchAnswer
    \/ SearchRaise
    \/ SearchReply

ScanSpec == InitScan /\ [][NextScan]_vars

\* the chunk ids: payloads prepared for files of any hash, name and length
\* (the pure part of _index_document, lines 634-647)
MaxChunks == 12

AllContents == Contents \cup {"v3"}

ComputeIds(content, d, n) ==
    /\ Len(probe) < 2
    /\ LET file_hash == compute_file_hash(content)
           chunks == Payloads(file_hash, d.category, d.filename,
                              [i \in 1..n |-> <<"c", "d">>])
       IN probe' = Append(probe, [file_hash |-> file_hash, doc |-> d,
                                  ids |-> [i \in 1..n |-> chunks[i].id]])
    /\ UNCHANGED <<phase, files, store, ledger, clock, enc, tasks, nruns, nedits, boots,
                   search, emptied, embed>>

NextId == \E content \in AllContents, d \in Docs, n \in {1, 2, MaxChunks} :
             ComputeIds(content, d, n)

IdSpec == Init /\ [][NextId]_vars

\* the sparse encoder: fit_batch and encode on texts of any kind, in any order
MaxDocs == 3

\* the texts of the encoder specification: no text, terms whose indices are
\* met in descending order ("zz ab"), two terms of one index, one of them
\* repeated ("aa 4gx aa"), upper case and a word of one letter ("Cd x cd"),
\* one term ("ab")
EncTexts ==
    { <<>>,
      <<"z","z"," ","a","b">>,
      <<"a","a"," ","4","g","x"," ","a","a">>,
      <<"C","d"," ","x"," ","c","d">>,
      <<"a","b">> }

EncBatches == {<<a>> : a \in EncTexts} \cup {<<a, b>> : a, b \in EncTexts}

EncFit(texts) ==
    /\ enc.doc_count + Len(texts) <= MaxDocs
    /\ enc' = fit_batch(enc, texts)
    /\ UNCHANGED <<phase, files, store, ledger, clock, tasks, nruns, nedits, boots, search,
                   emptied, probe, embed>>

EncEncode(text) ==
    /\ probe' = <<[op |-> "encode", text |-> text, sparse |-> encode(enc, text)]>>
    /\ UNCHANGED <<phase, files, store, ledger, clock, enc, tasks, nruns, nedits, boots,
                   search, emptied, embed>>

EncEncodeQuery(text) ==
    /\ probe' = <<[op |-> "encode_query", text |-> text,
                   sparse |-> encode_query(enc, text)]>>
    /\ UNCHANGED <<phase, files, store, ledger, clock, enc, tasks, nruns, nedits, boots,
                   search, emptied, embed>>

NextEnc ==
    \/ \E texts \in EncBatches : EncFit(texts)
    \/ \E text \in EncTexts : EncEncode(text)
    \/ \E text \in EncTexts : EncEncodeQuery(text)

EncSpec == Init /\ [][NextEnc]_vars

\* ------------------------------------- specification of the tf component
\* the occurrences added to a text at most
MaxMore == 2

\* the terms whose frequency is raised: one of two letters, one that shares
\* its index with "4gx", one no text holds
EncTerms == { <<"a","b">>, <<"a","a">>, <<"c","d">>, <<"g","h">> }

\* the text with n more occurrences of the term, the other terms as they were
RECURSIVE WithMore(_, _, _)
WithMore(text, term, n) ==
    IF n = 0 THEN text ELSE WithMore(text \o <<" ">> \o term, term, n - 1)

\* the tf component encode gave the index (0 when the index has no entry)
TfOf(sparse, idx) ==
    IF \E i \in 1..Len(sparse.indices) : sparse.indices[i] = idx
    THEN sparse.values[CHOOSE i \in 1..Len(sparse.indices) : sparse.indices[i] = idx].tf
    ELSE <<0, 1>>

\* encode of a text and of the text with more occurrences of one term, under
\* the same statistics (one pair of encodings is followed)
EncRaise(text, term, n) ==
    /\ probe = <<>>
    /\ probe' = <<[op |-> "raise", text |-> text, term |-> term, more |-> n,
                   doc_count |-> enc.doc_count, avg_doc_len |-> enc.avg_doc_len,
                   before |-> TfOf(encode(enc, text), _hash_token(term)),
                   after |-> TfOf(encode(enc, WithMore(text, term, n)),
                                  _hash_token(term))]>>
    /\ UNCHANGED <<phase, files, store, ledger, clock, enc, tasks, nruns, nedits, boots,
                   search, emptied, embed>>

NextTf ==
    \/ \E text \in EncTexts : EncFit(<<text>>)
    \/ \E text \in EncTexts, term \in EncTerms, n \in 1..MaxMore : EncRaise(text, term, n)

TfSpec == Init /\ [][NextTf]_vars

\* EmbeddingClient.embed_batch, request by request
\* the batches handed to embed_batch
ChunkTexts == UNION {Range(extract_and_chunk(c)) : c \in AllContents}

EmbedBatches ==
    {<<>>} \cup {<<a>> : a \in ChunkTexts} \cup {<<a, b>> : a, b \in ChunkTexts}

\* the orders in which the response may list the embeddings of n texts
Orders(n) == {o \in [1..n -> 0..(n - 1)] : \A i, j \in 1..n : o[i] = o[j] => i = j}

\* lines 146-153: no texts: return []; else the client, the payload and the
\* first pass of the loop
EmbedBatchCall(texts) ==
    /\ embed.pc = "idle"
    /\ embed' = IF texts = <<>>
                THEN [IdleEmbed EXCEPT !.pc = "returned"]
                ELSE [IdleEmbed EXCEPT !.pc = "post", !.texts = texts]
    /\ UNCHANGED <<phase, files, store, ledger, clock, enc, tasks, nruns, nedits, boots,
                   search, emptied, probe>>

\* lines 157-161: the request succeeds; the data sorted by index is returned
PostOk(order) ==
    /\ embed.pc = "post"
    /\ LET data == [k \in 1..Len(embed.texts) |->
                      [index |-> order[k],
                       embedding |-> Embedding(embed.texts[order[k] + 1])]]
           sorted_data == SortPairs(data, <<>>)
       IN embed' = [embed EXCEPT
                      !.pc = "returned",
                      !.log = Append(@, [ev |-> "post", n |-> embed.attempt]),
                      !.result = [k \in 1..Len(sorted_data) |-> sorted_data[k].embedding]]
    /\ UNCHANGED <<phase, files, store, ledger, clock, enc, tasks, nruns, nedits, boots,
                   search, emptied, probe>>

\* (mutant) a fourth request allowed
PostFails_FourAttempts(kind) ==
    /\ embed.pc = "post"
    /\ embed' = IF embed.attempt < 3
                THEN [embed EXCEPT
                        !.pc = "sleep", !.last_error = kind,
                        !.log = @ \o <<[ev |-> "post", n |-> embed.attempt],
                                       [ev |-> "sleep", n |-> 2 ^ embed.attempt]>>]
                ELSE [embed EXCEPT
                        !.pc = "raised", !.last_error = kind,
                        !.error = "Embedding failed after 3 attempts",
                        !.log = Append(@, [ev |-> "post", n |-> embed.attempt])]
    /\ UNCHANGED <<phase, files, store, ledger, clock, enc, tasks, nruns, nedits, boots,
                   search, emptied, probe>>

\* lines 162-167: the request fails with an HTTP status or a transport error:
\* asyncio.sleep(2 ** attempt) before the second and the third request, the
\* RuntimeError after the third
PostFails(kind) ==
    /\ embed.pc = "post"
    /\ embed' = IF embed.attempt < 2
                THEN [embed EXCEPT
                        !.pc = "sleep", !.last_error = kind,
                        !.log = @ \o <<[ev |-> "post", n |-> embed.attempt],
                                       [ev |-> "sleep", n |-> 2 ^ embed.attempt]>>]
                ELSE [embed EXCEPT
                        !.pc = "raised", !.last_error = kind,
                        !.error = "Embedding failed after 3 attempts",
                        !.log = Append(@, [ev |-> "post", n |-> embed.attempt])]
    /\ UNCHANGED <<phase, files, store, ledger, clock, enc, tasks, nruns, nedits, boots,
                   search, emptied, probe>>

\* an error the except clause does not name (a malformed response body)
\* leaves embed_batch at once
PostRaisesOther ==
    /\ embed.pc = "post"
    /\ embed' = [embed EXCEPT
                   !.pc = "raised", !.error = "other",
                   !.log = Append(@, [ev |-> "post", n |-> embed.attempt])]
    /\ UNCHANGED <<phase, files, store, ledger, clock, enc, tasks, nruns, nedits, boots,
                   search, emptied, probe>>

\* the sleep ends: the next pass of the loop
SleepDone ==
    /\ embed.pc = "sleep"
    /\ embed' = [embed EXCEPT !.pc = "post", !.attempt = @ + 1]
    /\ UNCHANGED <<phase, files, store, ledger, clock, enc, tasks, nruns, nedits, boots,
                   search, emptied, probe>>

\* the caller has the vectors, or the error
EmbedDone ==
    /\ embed.pc \in {"returned", "raised"}
    /\ embed' = IdleEmbed
    /\ UNCHANGED <<phase, files, store, ledger, clock, enc, tasks, nruns, nedits, boots,
                   search, emptied, probe>>

NextEmbed ==
    \/ \E texts \in EmbedBatches : EmbedBatchCall(texts)
    \/ \E order \in Orders(Len(embed.texts)) : PostOk(order)
    \/ \E kind \in {"HTTPStatusError", "TransportError"} : PostFails(kind)
    \/ PostRaisesOther
    \/ SleepDone
    \/ EmbedDone

EmbedSpec == Init /\ [][NextEmbed]_vars

\* ------------------------------------------------ datetime: the calendar
\* a date of the proleptic Gregorian calendar
Date(y, m, d) == [year |-> y, month |-> m, day |-> d]

IsLeap(y) == y % 4 = 0 /\ (y % 100 # 0 \/ y % 400 = 0)

DaysInMonth(y, m) ==
    IF m = 2 THEN (IF IsLeap(y) THEN 29 ELSE 28)
    ELSE IF m \in {4, 6, 9, 11} THEN 30 ELSE 31

\* the dates a constructor accepts; date(...) and replace raise ValueError
\* on the others
ValidDate(d) ==
    /\ d.year \in 1..9999 /\ d.month \in 1..12
    /\ d.day >= 1 /\ d.day <= DaysInMonth(d.year, d.month)

RECURSIVE DaysBeforeMonth(_, _)
DaysBeforeMonth(y, m) ==
    IF m = 1 THEN 0 ELSE DaysBeforeMonth(y, m - 1) + DaysInMonth(y, m - 1)

DaysBeforeYear(y) ==
    (y - 1) * 365 + (y - 1) \div 4 - (y - 1) \div 100 + (y - 1) \div 400

\* date.toordinal: 0001-01-01 is day 1
ToOrdinal(d) == DaysBeforeYear(d.year) + DaysBeforeMonth(d.year, d.month) + d.day

\* date.fromordinal
FromOrdinal(n) ==
    LET y == CHOOSE y \in (n \div 366)..(n \div 365 + 1) :
                 DaysBeforeYear(y) < n /\ n <= DaysBeforeYear(y + 1)
        r == n - DaysBeforeYear(y)
        m == CHOOSE m \in 1..12 :
                 DaysBeforeMonth(y, m) < r /\ r <= DaysBeforeMonth(y, m) + DaysInMonth(y, m)
    IN Date(y, m, r - DaysBeforeMonth(y, m))

\* date + timedelta(days=k)
AddDays(d, k) == FromOrdinal(ToOrdinal(d) + k)

\* date.weekday: Monday is 0, Sunday is 6
Weekday(d) == (ToOrdinal(d) + 6) % 7

\* ------------------------------------- datetime: America/New_York (zoneinfo)
\* a point of the UTC time line, or a wall time: a date and the minute of
\* its day (the seconds of a datetime are carried beside it)
At(d, minute) == [date |-> d, minute |-> minute]

\* t shifted by a number of minutes
Shift(t, minutes) ==
    LET total == t.minute + minutes
    IN At(AddDays(t.date, total \div 1440), total % 1440)

Before(s, t) ==
    \/ ToOrdinal(s.date) < ToOrdinal(t.date)
    \/ ToOrdinal(s.date) = ToOrdinal(t.date) /\ s.minute < t.minute

\* the rule of the zone since 2007: daylight time from the second Sunday of
\* March to the first Sunday of November
DstStartDay(y) == Date(y, 3, CHOOSE d \in 8..14 : Weekday(Date(y, 3, d)) = 6)
DstEndDay(y) == Date(y, 11, CHOOSE d \in 1..7 : Weekday(Date(y, 11, d)) = 6)

\* utcoffset, in minutes, at a point of the UTC time line: the clocks change
\* at 2:00 local, which is 7:00 UTC in March and 6:00 UTC in November
UtcOffsetAt(t) ==
    IF /\ ~Before(t, At(DstStartDay(t.date.year), 420))
       /\ Before(t, At(DstEndDay(t.date.year), 360))
    THEN -240 ELSE -300

\* utcoffset, in minutes, of a wall time with fold = 0: a time the clocks
\* skip keeps the offset before the change, a time they repeat is the first
\* of the two
UtcOffsetOfWall(w) ==
    IF /\ ~Before(w, At(DstStartDay(w.date.year), 180))
       /\ Before(w, At(DstEndDay(w.date.year), 120))
    THEN -240 ELSE -300

\* datetime.now(EASTERN_TIMEZONE) when the clock reads the UTC time t
NowEastern(t) == Shift(t, UtcOffsetAt(t))

\* -------------------------------------------- datetime: strings and parsing
IsDigit(c) == c \in Range(AsciiDigit)

DigitValue(c) == (CHOOSE i \in 1..10 : AsciiDigit[i] = c) - 1

\* int() of a string of digits
RECURSIVE ParseInt(_)
ParseInt(s) ==
    IF s = <<>> THEN 0
    ELSE ParseInt(SubSeq(s, 1, Len(s) - 1)) * 10 + DigitValue(s[Len(s)])

AllDigits(s) == \A i \in 1..Len(s) : IsDigit(s[i])

\* %02d and %04d
Pad2(n) == <<AsciiDigit[(n \div 10) + 1], AsciiDigit[(n % 10) + 1]>>
Pad4(n) == Pad2(n \div 100) \o Pad2(n % 100)

\* str.lower
Lower(s) == [i \in 1..Len(s) |-> LowerChar(s[i])]

\* x in s, for a character x
Has(s, c) == \E i \in 1..Len(s) : s[i] = c

\* s.endswith(suffix)
EndsWith(s, suffix) ==
    Len(s) >= Len(suffix) /\ SubSeq(s, Len(s) - Len(suffix) + 1, Len(s)) = suffix

\* s.replace(old, new)
RECURSIVE Replace(_, _, _)
Replace(s, old, new) ==
    IF Len(s) < Len(old) THEN s
    ELSE IF SubSeq(s, 1, Len(old)) = old
         THEN new \o Replace(SubSeq(s, Len(old) + 1, Len(s)), old, new)
         ELSE <<Head(s)>> \o Replace(Tail(s), old, new)

\* the outcome of a call: the value returned (None apart), or the exception
Returns(v) == [raised |-> "", none |-> FALSE, value |-> v]
ReturnsNone == [raised |-> "", none |-> TRUE, value |-> <<>>]
Raises(e) == [raised |-> e, none |-> FALSE, value |-> <<>>]

\* a parsed value or the ValueError of the parser
NoDate == [ok |-> FALSE, date |-> Date(0, 0, 0)]

\* date.fromisoformat on YYYY-MM-DD (the form of the strings of the model)
date_fromisoformat(s) ==
    IF /\ Len(s) = 10 /\ s[5] = "-" /\ s[8] = "-"
       /\ AllDigits(SubSeq(s, 1, 4)) /\ AllDigits(SubSeq(s, 6, 7))
       /\ AllDigits(SubSeq(s, 9, 10))
       /\ ValidDate(Date(ParseInt(SubSeq(s, 1, 4)), ParseInt(SubSeq(s, 6, 7)),
                         ParseInt(SubSeq(s, 9, 10))))
    THEN [ok |-> TRUE,
          date |-> Date(ParseInt(SubSeq(s, 1, 4)), ParseInt(SubSeq(s, 6, 7)),
                        ParseInt(SubSeq(s, 9, 10)))]
    ELSE NoDate

\* tzinfo: None, the zone America/New_York, or a fixed offset in minutes
NoTz == [kind |-> "none", offset |-> 0]
EasternTz == [kind |-> "zone", offset |-> 0]
FixedTz(minutes) == [kind |-> "fixed", offset |-> minutes]

NoDateTime ==
    [ok |-> FALSE, date |-> Date(0, 0, 0), minute |-> 0, second |-> 0, tzinfo |-> NoTz]

\* HH:MM of a time or of an offset, as minutes; -1 when malformed
ParseHHMM(s) ==
    IF /\ Len(s) = 5 /\ s[3] = ":" /\ AllDigits(SubSeq(s, 1, 2))
       /\ AllDigits(SubSeq(s, 4, 5))
       /\ ParseInt(SubSeq(s, 1, 2)) <= 23 /\ ParseInt(SubSeq(s, 4, 5)) <= 59
    THEN ParseInt(SubSeq(s, 1, 2)) * 60 + ParseInt(SubSeq(s, 4, 5))
    ELSE -1

\* the offset suffix of a datetime string: "", "Z", +HH:MM or -HH:MM
ParseTz(s) ==
    IF s = <<>> THEN [ok |-> TRUE, tzinfo |-> NoTz]
    ELSE IF s = <<"Z">> THEN [ok |-> TRUE, tzinfo |-> FixedTz(0)]
    ELSE IF Len(s) = 6 /\ s[1] \in {"+", "-"} /\ ParseHHMM(Tail(s)) >= 0
         THEN [ok |-> TRUE,
               tzinfo |-> FixedTz(IF s[1] = "+" THEN ParseHHMM(Tail(s))
                                  ELSE -ParseHHMM(Tail(s)))]
         ELSE [ok |-> FALSE, tzinfo |-> NoTz]

\* datetime.fromisoformat on YYYY-MM-DDTHH:MM[:SS][offset]
datetime_fromisoformat(s) ==
    LET d == date_fromisoformat(SubSeq(s, 1, 10))
        hm == ParseHHMM(SubSeq(s, 12, 16))
        secs == Len(s) >= 19 /\ s[17] = ":"
        sec_ok == secs => AllDigits(SubSeq(s, 18, 19)) /\ ParseInt(SubSeq(s, 18, 19)) <= 59
        tz == ParseTz(SubSeq(s, IF secs THEN 20 ELSE 17, Len(s)))
    IN IF Len(s) >= 16 /\ d.ok /\ s[11] = "T" /\ hm >= 0 /\ sec_ok /\ tz.ok
       THEN [ok |-> TRUE, date |-> d.date, minute |-> hm,
             second |-> IF secs THEN ParseInt(SubSeq(s, 18, 19)) ELSE 0,
             tzinfo |-> tz.tzinfo]
       ELSE NoDateTime

\* utcoffset of an aware datetime, in minutes
utcoffset(dt) ==
    IF dt.tzinfo.kind = "zone" THEN UtcOffsetOfWall(At(dt.date, dt.minute))
    ELSE dt.tzinfo.offset

\* dt.astimezone(datetime.UTC) of an aware datetime
astimezone_utc(dt) ==
    LET t == Shift(At(dt.date, dt.minute), -utcoffset(dt))
    IN [dt EXCEPT !.date = t.date, !.minute = t.minute, !.tzinfo = FixedTz(0)]

\* date.isoformat
date_isoformat(d) == Pad4(d.year) \o <<"-">> \o Pad2(d.month) \o <<"-">> \o Pad2(d.day)

\* HH:MM:SS
time_isoformat(minute, second) ==
    Pad2(minute \div 60) \o <<":">> \o Pad2(minute % 60) \o <<":">> \o Pad2(second)

\* datetime.isoformat of a datetime in UTC
datetime_isoformat(dt) ==
    date_isoformat(dt.date) \o <<"T">> \o time_isoformat(dt.minute, dt.second)
      \o <<"+","0","0",":","0","0">>

\* dt.strftime("%Y-%m-%dT%H:%M:%SZ")
strftime_Z(dt) ==
    date_isoformat(dt.date) \o <<"T">> \o time_isoformat(dt.minute, dt.second) \o <<"Z">>

\* ------------------------------------------------------ parse_time_string
\* date.replace(year=..., day=...): the date, or ValueError
date_replace(d, y, day) ==
    IF ValidDate(Date(y, d.month, day)) THEN [ok |-> TRUE, date |-> Date(y, d.month, day)]
    ELSE NoDate

\* the keywords, as str.lower leaves them
Today == <<"t","o","d","a","y">>
Tomorrow == <<"t","o","m","o","r","r","o","w">>
Yesterday == <<"y","e","s","t","e","r","d","a","y">>
NextWeek == <<"n","e","x","t","_","w","e","e","k">>
NextMonth == <<"n","e","x","t","_","m","o","n","t","h">>
NextYear == <<"n","e","x","t","_","y","e","a","r">>
Keywords == {Today, Tomorrow, Yesterday, NextWeek, NextMonth, NextYear}

\* datetime(year, month, day, 0, 0, 0, tzinfo=UTC).isoformat().replace("+00:00", "Z")
UtcMidnight(date_obj) ==
    Replace(datetime_isoformat([date |-> date_obj, minute |-> 0, second |-> 0,
                                tzinfo |-> FixedTz(0)]),
            <<"+","0","0",":","0","0">>, <<"Z">>)

\* parse_time_string when the clock reads the UTC time now
parse_time_string(now, time_str) ==
    LET lowered == Lower(time_str)
        today == NowEastern(now).date
        next_month == date_replace(AddDays(date_replace(today, today.year, 1).date, 32),
                                   AddDays(date_replace(today, today.year, 1).date, 32).year,
                                   1)
        next_year == date_replace(today, today.year + 1, today.day)
        as_date == date_fromisoformat(time_str)
        dt == datetime_fromisoformat(time_str)
    IN IF time_str = <<>> THEN ReturnsNone
       ELSE IF lowered = Today THEN Returns(UtcMidnight(today))
       ELSE IF lowered = Tomorrow THEN Returns(UtcMidnight(AddDays(today, 1)))
       ELSE IF lowered = Yesterday THEN Returns(UtcMidnight(AddDays(today, -1)))
       ELSE IF lowered = NextWeek THEN Returns(UtcMidnight(AddDays(today, 7)))
       ELSE IF lowered = NextMonth THEN Returns(UtcMidnight(next_month.date))
       ELSE IF lowered = NextYear
            THEN (IF next_year.ok THEN Returns(UtcMidnight(next_year.date))
                  ELSE Raises("ValueError"))
       ELSE IF as_date.ok THEN Returns(UtcMidnight(as_date.date))
       ELSE IF dt.ok THEN Returns(UtcMidnight(dt.date))
       ELSE Returns(time_str)

\* --------------------------------------------------- parse_iso_time_string
\* (mutant) a datetime without offset read as UTC
parse_iso_time_string_NaiveAsUtc(time_str) ==
    LET dt == datetime_fromisoformat(time_str)
        naive == /\ Has(time_str, "T") /\ ~Has(time_str, "+")
                 /\ ~Has(SubSeq(time_str, 11, Len(time_str)), "-")
                 /\ ~Has(time_str, "Z")
    IN IF time_str = <<>> THEN ReturnsNone
       ELSE IF /\ Len(time_str) = 10 /\ time_str[5] = "-" /\ time_str[8] = "-"
               /\ date_fromisoformat(time_str).ok
            THEN Returns(time_str)
       ELSE IF naive
            THEN (IF dt.ok
                  THEN Returns(strftime_Z(astimezone_utc([dt EXCEPT !.tzinfo = FixedTz(0)])))
                  ELSE Returns(time_str \o <<"Z">>))
       ELSE IF Has(time_str, "T") /\ EndsWith(time_str, <<"Z">>) THEN Returns(time_str)
       ELSE IF Has(time_str, "T") /\ dt.ok /\ dt.tzinfo.kind # "none"
            THEN Returns(strftime_Z(astimezone_utc(dt)))
       ELSE Returns(time_str)

parse_iso_time_string(time_str) ==
    LET dt == datetime_fromisoformat(time_str)
        naive == /\ Has(time_str, "T") /\ ~Has(time_str, "+")
                 /\ ~Has(SubSeq(time_str, 11, Len(time_str)), "-")
                 /\ ~Has(time_str, "Z")
    IN IF time_str = <<>> THEN ReturnsNone
       ELSE IF /\ Len(time_str) = 10 /\ time_str[5] = "-" /\ time_str[8] = "-"
               /\ date_fromisoformat(time_str).ok
            THEN Returns(time_str)
       ELSE IF naive
            THEN (IF dt.ok
                  THEN Returns(strftime_Z(astimezone_utc([dt EXCEPT !.tzinfo = EasternTz])))
                  ELSE Returns(time_str \o <<"Z">>))
       ELSE IF Has(time_str, "T") /\ EndsWith(time_str, <<"Z">>) THEN Returns(time_str)
       ELSE IF Has(time_str, "T") /\ dt.ok /\ dt.tzinfo.kind # "none"
            THEN Returns(strftime_Z(astimezone_utc(dt)))
       ELSE Returns(time_str)

\* --------------------------------- specification of parse_time_string
\* the last year of the clock
LastYear == 2028

\* the days the clock reads: the first and the last of every month of two
\* years (one of them a leap year), the days the clocks change and the days
\* after them
ClockDays ==
    UNION { {Date(y, m, 1) : m \in 1..12}
              \cup {Date(y, m, DaysInMonth(y, m)) : m \in 1..12}
              \cup {DstStartDay(y), AddDays(DstStartDay(y), 1),
                    DstEndDay(y), AddDays(DstEndDay(y), 1)} : y \in (LastYear - 1)..LastYear }

\* the minutes of the day the clock reads, in UTC: around midnight in UTC,
\* around midnight in New York under either offset, around the changes of
\* the clocks, noon in New York
ClockMinutes == {0, 239, 240, 299, 300, 360, 420, 1020, 1439}

\* the instants of the tests of the keywords
TestInstants ==
    {At(Date(2026, 2, 23), 180), At(Date(2026, 2, 23), 240), At(Date(2026, 2, 22), 1020),
     At(Date(2026, 2, 23), 299), At(Date(2026, 2, 23), 300)}

Instants == {At(d, m) : d \in ClockDays, m \in ClockMinutes} \cup TestInstants

\* the arguments: the keywords, two of them in other case, and the strings
\* of the other branches
TimeStrings ==
    Keywords
      \cup { <<"T","o","d","a","y">>,
             <<"N","E","X","T","_","Y","E","A","R">>,
             <<>>,
             <<"2","0","2","6","-","0","2","-","2","3">>,
             <<"2","0","2","6","-","0","2","-","2","3","T","0","9",":","0","0",":","0","0">>,
             <<"2","0","2","6","-","0","2","-","2","3","T","0","9",":","0","0",":","0","0",
               "-","0","5",":","0","0">>,
             <<"n","o","t","-","a","-","d","a","t","e">> }

InitTime ==
    /\ phase = "down"
    /\ files = SmallTree
    /\ store = {}
    /\ ledger = {}
    /\ clock = 0
    /\ enc = NewEncoder
    /\ tasks = [t \in Tasks |-> IdleTask]
    /\ nruns = 0
    /\ nedits = 0
    /\ boots = 0
    /\ search = IdleSearch
    /\ emptied = {}
    /\ embed = IdleEmbed
    /\ \E now \in Instants :
          probe = <<[op |-> "now", now |-> now, time_str |-> <<>>, result |-> ReturnsNone]>>

ParseTimeString(time_str) ==
    /\ probe' = <<[op |-> "parse_time_string", now |-> probe[1].now, time_str |-> time_str,
                   result |-> parse_time_string(probe[1].now, time_str)]>>
    /\ UNCHANGED <<phase, files, store, ledger, clock, enc, tasks, nruns, nedits, boots,
                   search, emptied, embed>>

NextTime == \E time_str \in TimeStrings : ParseTimeString(time_str)

TimeSpec == InitTime /\ [][NextTime]_vars

\* ----------------------------- specification of parse_iso_time_string
\* the dates of the strings: winter and summer, the days the clocks change,
\* a leap day, the first and the last day of a year
IsoDates ==
    {Date(2026, 2, 23), Date(2026, 6, 15), DstStartDay(2027), DstEndDay(2027),
     Date(2028, 2, 29), Date(2027, 1, 1), Date(2027, 12, 31)}

\* the times of day, as minute and second: before, within and after the
\* hours the clocks skip or repeat, the morning, the afternoon, the last
\* second of the day
IsoTimes ==
    {<<30, 0>>, <<90, 0>>, <<150, 0>>, <<210, 0>>, <<540, 0>>, <<840, 0>>, <<1439, 59>>}

\* no offset, Z, and offsets west and east of Greenwich
IsoSuffixes ==
    { <<>>, <<"Z">>, <<"-","0","5",":","0","0">>, <<"-","0","4",":","0","0">>,
      <<"+","0","2",":","0","0">>, <<"+","0","5",":","3","0">> }

\* the arguments: dates alone, datetimes with and without seconds, no
\* string, and strings that are no dates
IsoStrings ==
    {date_isoformat(d) : d \in IsoDates}
      \cup {date_isoformat(d) \o <<"T">> \o time_isoformat(t[1], t[2]) \o z :
               d \in IsoDates, t \in IsoTimes, z \in IsoSuffixes}
      \cup {date_isoformat(d) \o <<"T","0","9",":","0","0">> \o z :
               d \in IsoDates, z \in IsoSuffixes}
      \cup { <<>>,
             <<"n","o","t","-","a","-","d","a","t","e">>,
             <<"2","0","2","6","-","0","2","-","3","0">>,
             <<"2","0","2","6","-","0","2","-","3","0","T","0","9",":","0","0",":","0","0">> }

ParseIsoTimeString(time_str) ==
    /\ probe' = <<[op |-> "parse_iso_time_string", time_str |-> time_str,
                   result |-> parse_iso_time_string(time_str)]>>
    /\ UNCHANGED <<phase, files, store, ledger, clock, enc, tasks, nruns, nedits, boots,
                   search, emptied, embed>>

NextIso == \E time_str \in IsoStrings : ParseIsoTimeString(time_str)

IsoSpec == Init /\ [][NextIso]_vars

\* ------------------------------------------ specification of _tokenize
\* the length of a text at most
MaxLen == 3

\* the characters of the texts: a lower-case letter, an upper-case letter, a
\* digit, the underscore, a space, a hyphen and a non-ASCII letter
TokChars == {"a", "B", "7", "_", " ", "-", NonAsciiLower}

RECURSIVE TextsOfLen(_)
TextsOfLen(n) ==
    IF n = 0 THEN {<<>>} ELSE {Append(t, c) : t \in TextsOfLen(n - 1), c \in TokChars}

TokTexts == UNION {TextsOfLen(n) : n \in 0..MaxLen}

InitTok ==
    /\ phase = "down"
    /\ files = SmallTree
    /\ store = {}
    /\ ledger = {}
    /\ clock = 0
    /\ enc = NewEncoder
    /\ tasks = [t \in Tasks |-> IdleTask]
    /\ nruns = 0
    /\ nedits = 0
    /\ boots = 0
    /\ search = IdleSearch
    /\ emptied = {}
    /\ embed = IdleEmbed
    /\ \E text \in TokTexts : probe = <<[op |-> "text", text |-> text, tokens |-> <<>>]>>

Tokenize ==
    /\ probe[1].op = "text"
    /\ probe' = <<[op |-> "_tokenize", text |-> probe[1].text,
                   tokens |-> _tokenize(probe[1].text)]>>
    /\ UNCHANGED <<phase, files, store, ledger, clock, enc, tasks, nruns, nedits, boots,
                   search, emptied, embed>>

TokSpec == InitTok /\ [][Tokenize]_vars

\* ------------------------------- the fallback chunker of extract_and_chunk
\* content.split("\n\n"): the pieces between the occurrences of two line
\* feet, taken from the left (piece is the piece in progress)
RECURSIVE SplitParagraphs(_, _)
SplitParagraphs(s, piece) ==
    IF s = <<>> THEN <<piece>>
    ELSE IF Len(s) >= 2 /\ s[1] = "\n" /\ s[2] = "\n"
         THEN <<piece>> \o SplitParagraphs(SubSeq(s, 3, Len(s)), <<>>)
         ELSE SplitParagraphs(Tail(s), Append(piece, Head(s)))

IsSpace(c) == c \in {" ", "\n"}

\* str.strip
RECURSIVE Strip(_)
Strip(s) ==
    IF s = <<>> THEN s
    ELSE IF IsSpace(Head(s)) THEN Strip(Tail(s))
    ELSE IF IsSpace(s[Len(s)]) THEN Strip(SubSeq(s, 1, Len(s) - 1))
    ELSE s

\* the loop over the paragraphs: the chunks closed so far and the chunk in
\* progress
RECURSIVE ChunkLoop(_, _, _, _)
ChunkLoop(paras, chunks, current, chunk_max_chars) ==
    IF paras = <<>> THEN (IF current # <<>> THEN Append(chunks, Strip(current)) ELSE chunks)
    ELSE LET para == Head(paras)
         IN IF Len(current) + Len(para) > chunk_max_chars
            THEN ChunkLoop(Tail(paras),
                           IF current # <<>> THEN Append(chunks, Strip(current)) ELSE chunks,
                           para, chunk_max_chars)
            ELSE ChunkLoop(Tail(paras), chunks,
                           IF current # <<>> THEN current \o <<"\n", "\n">> \o para ELSE para,
                           chunk_max_chars)

\* extract_and_chunk when the extractor returns content and no chunks
fallback_chunks(content, chunk_max_chars) ==
    IF content = <<>> THEN <<>>
    ELSE SelectSeq(ChunkLoop(SplitParagraphs(content, <<>>), <<>>, <<>>, chunk_max_chars),
                   LAMBDA c : c # <<>>)

\* the length of a content at most
MaxContent == 5

\* the characters of the contents: two letters, a space and a line feed
ContentChars == {"a", "b", " ", "\n"}

RECURSIVE ContentsOfLen(_)
ContentsOfLen(n) ==
    IF n = 0 THEN {<<>>}
    ELSE {Append(t, c) : t \in ContentsOfLen(n - 1), c \in ContentChars}

ChunkContents == UNION {ContentsOfLen(n) : n \in 0..MaxContent}

\* the values of settings.chunk_max_chars
ChunkLimits == {2, 3}

InitChunk ==
    /\ phase = "down"
    /\ files = SmallTree
    /\ store = {}
    /\ ledger = {}
    /\ clock = 0
    /\ enc = NewEncoder
    /\ tasks = [t \in Tasks |-> IdleTask]
    /\ nruns = 0
    /\ nedits = 0
    /\ boots = 0
    /\ search = IdleSearch
    /\ emptied = {}
    /\ embed = IdleEmbed
    /\ \E content \in ChunkContents, limit \in ChunkLimits :
          probe = <<[op |-> "content", content |-> content, chunk_max_chars |-> limit,
                     chunks |-> <<>>]>>

FallbackChunk ==
    /\ probe[1].op = "content"
    /\ probe' = <<[probe[1] EXCEPT
                     !.op = "extract_and_chunk",
                     !.chunks = fallback_chunks(probe[1].content,
                                                probe[1].chunk_max_chars)]>>
    /\ UNCHANGED <<phase, files, store, ledger, clock, enc, tasks, nruns, nedits, boots,
                   search, emptied, embed>>

ChunkSpec == InitChunk /\ [][FallbackChunk]_vars

\* ---------------------------------------------------------------- claims
AllHashes == {compute_file_hash(c) : c \in AllContents}

RunPcs == {"check", "delete", "remove", "extract", "embed", "upsert", "mark"}

\* the points tagged with the document d
PointsOf(st, d) ==
    {p \in st : p.payload.category = d.category /\ p.payload.filename = d.filename}

\* the step is a step of coroutine t that is not the process stopping
OwnStep(t) == tasks'[t] # tasks[t] /\ phase' # "down"

\* the step ends the run of coroutine t with an error
RaisedIn(t) ==
    \/ tasks'[t].failed # tasks[t].failed
    \/ tasks'[t].pc = "returned" /\ ~tasks'[t].result.success

\* the step ends the run of coroutine t with a return value
ReturnsIn(t) ==
    /\ OwnStep(t) /\ ~RaisedIn(t)
    /\ tasks[t].pc \in RunPcs /\ tasks'[t].pc \in {"loop", "returned"}

\* the value the run returns in such a step
Returned(t) ==
    IF tasks[t].kind = "reindex_doc" THEN tasks'[t].result.chunks_indexed
    ELSE tasks'[t].total_chunks - tasks[t].total_chunks

\* C1: a run without force on a file whose content hash has a ledger record
\* returns 0 and changes neither the vector store, nor the ledger (indexed_at
\* included), nor the corpus statistics.
C1_SkipIsNoOp ==
    [][\A t \in Tasks :
         (/\ tasks[t].pc = "check" /\ ~tasks[t].force
          /\ \E r \in ledger : r.file_hash = tasks[t].file_hash
          /\ OwnStep(t) /\ ~RaisedIn(t))
         => (/\ ReturnsIn(t) /\ Returned(t) = 0
             /\ store' = store /\ ledger' = ledger /\ enc' = enc)]_vars

\* C1 witness: after a restart the scan has skipped a file that was indexed
\* before, its record and its chunks in place.
C1_Witness ==
    \E t \in Tasks :
       /\ tasks[t].last = "skipped" /\ boots = 2
       /\ \E r \in ledger : /\ r.file_hash = tasks[t].file_hash
                            /\ r.path = PathOf(tasks[t].doc)
                            /\ r.indexed_at < clock
       /\ PointsOf(store, tasks[t].doc) # {}

\* C2 (as claimed): the points stored for one (category, filename) all carry
\* chunk ids of one content hash.
C2_OneGeneration ==
    \A d \in DOMAIN files :
       \E h \in AllHashes :
          \A p \in PointsOf(store, d) : p.id = chunk_id(h, p.payload.chunk_index)

\* C3 (as claimed): a ledger record of a document with no run in progress
\* has exactly its chunk_count points in the store, with the ids of its hash
\* and the ordinals 0..chunk_count-1.
C3_LedgerImpliesChunks ==
    \A r \in ledger :
       LET d == Doc(r.category, r.filename)
       IN (\A t \in Tasks : ~(tasks[t].pc \in RunPcs /\ tasks[t].doc = d))
          => /\ {p.id : p \in PointsOf(store, d)}
                  = {chunk_id(r.file_hash, i) : i \in 0..(r.chunk_count - 1)}
             /\ \A p \in PointsOf(store, d) :
                   /\ p.payload.chunk_index \in 0..(r.chunk_count - 1)
                   /\ p.id = chunk_id(r.file_hash, p.payload.chunk_index)

\* C4 (as claimed): when a reindex call answers without an error, every
\* document it processed that had a ledger record before still has one.
C4_NoSilentLoss ==
    \A t \in Tasks :
       (tasks[t].pc = "returned" /\ tasks[t].result.success)
       => \A d \in tasks[t].had : \E r \in ledger : r.path = PathOf(d)

\* C5: a run whose extraction yields no chunks returns 0 and changes neither
\* the corpus statistics, nor the store, nor the ledger, and never reaches
\* the embedder or the upsert; a run without force on a file whose hash has
\* no ledger record goes on to index it instead of skipping it.
C5_EmptyExtraction ==
    [][\A t \in Tasks :
         /\ (/\ tasks[t].pc = "extract"
             /\ extract_and_chunk(files[tasks[t].doc]) = <<>>
             /\ OwnStep(t) /\ ~RaisedIn(t))
            => (/\ ReturnsIn(t) /\ Returned(t) = 0
                /\ tasks'[t].last = "empty"
                /\ enc' = enc /\ store' = store /\ ledger' = ledger)
         /\ (/\ tasks[t].pc = "check" /\ ~tasks[t].force
             /\ ~\E r \in ledger : r.file_hash = tasks[t].file_hash
             /\ OwnStep(t) /\ ~RaisedIn(t))
            => tasks'[t].pc = "delete"]_vars

\* C5 witness: the scan after a restart is past the ledger check, indexing a
\* file again whose last run found no chunks and which was not edited since.
C5_Witness ==
    \E t \in Tasks :
       /\ tasks[t].kind = "startup" /\ tasks[t].pc = "delete" /\ ~tasks[t].force
       /\ tasks[t].doc \in emptied
       /\ tasks[t].file_hash = compute_file_hash(files[tasks[t].doc])
       /\ boots = 2

\* C6 (as claimed): when a run completes for a document that had a ledger
\* record of another hash H1 when the run began, no point of the document
\* carries an id of H1 and the ledger holds for its path a record of the new
\* hash and none of H1.
C6_OldGenerationGone ==
    [][\A t \in Tasks :
         (tasks[t].pc = "mark" /\ ReturnsIn(t))
         => \A h1 \in tasks[t].prior \ {tasks[t].file_hash} :
               /\ \A p \in PointsOf(store', tasks[t].doc) :
                     p.id # chunk_id(h1, p.payload.chunk_index)
               /\ \E r \in ledger' : /\ r.path = PathOf(tasks[t].doc)
                                     /\ r.file_hash = tasks[t].file_hash
               /\ ~\E r \in ledger' : /\ r.path = PathOf(tasks[t].doc)
                                      /\ r.file_hash = h1]_vars

\* C7: two chunk ids are equal exactly when their content hashes and their
\* ordinals are equal, whatever the category, the file name and the run.
C7_ChunkIdInjective ==
    \A a, b \in 1..Len(probe) :
       \A i \in 1..Len(probe[a].ids), j \in 1..Len(probe[b].ids) :
          (probe[a].ids[i] = probe[b].ids[j])
            <=> (probe[a].file_hash = probe[b].file_hash /\ i = j)

\* C7 witness: ids were computed for two files of the same bytes under
\* different names, with ordinals of two digits.
C7_Witness ==
    /\ Len(probe) = 2
    /\ probe[1].file_hash = probe[2].file_hash
    /\ probe[1].doc # probe[2].doc
    /\ Len(probe[1].ids) > 10 /\ Len(probe[2].ids) > 10

\* C8: every hit of a search in category X has payload category X, and the
\* file name of the document filter when one is given.
C8_CategoryScoped ==
    (search.pc = "returned" /\ search.result.success)
    => \A p \in search.hits :
          /\ p.payload.category = search.category
          /\ search.document # "" => p.payload.filename = search.document

\* C8 witness: a fused search with a document filter returned a hit while
\* the store held a chunk of the same file name in the other category.
C8_Witness ==
    /\ search.pc = "returned" /\ search.hits # {}
    /\ search.result.success
    /\ search.request.prefetch # <<>>
    /\ search.document # ""
    /\ \E p \in store : /\ p.payload.category # search.category
                        /\ p.payload.filename = search.document
    /\ \E p \in store : /\ p.payload.category = search.category
                        /\ p.payload.filename # search.document

\* the search has built its request, and was not ended by an error
Requested == search.pc = "query" \/ (search.pc = "returned" /\ search.result.success)

\* the tokens of the query all hash to indices the statistics do not hold
AllAbsent(e, q) ==
    \A i \in 1..Len(_tokenize(q)) : _hash_token(_tokenize(q)[i]) \notin DOMAIN e.doc_freqs

\* C9 (as claimed): a query whose tokens all hash to indices absent from the
\* corpus statistics is encoded to the empty sparse vector and sent as the
\* dense-only query with the min_score threshold.
C9_AbsentTermsFallBack ==
    [][(search.pc = "embed" /\ search'.pc = "query" /\ AllAbsent(enc, search.query))
       => (/\ search'.sparse_query = EmptySparse
           /\ search'.request.prefetch = <<>>
           /\ search'.request.score_threshold = search.min_similarity)]_vars

\* C9 (amended): a query without tokens is encoded to the empty sparse vector
\* and sent as the dense-only query with the min_score threshold, which every
\* hit meets; a query with tokens, also tokens absent from the statistics, is
\* encoded to a non-empty sparse vector and sent as the fused query.
C9_NoTokensFallBack ==
    Requested
    => /\ _tokenize(search.query) = <<>>
          => /\ search.sparse_query = EmptySparse
             /\ search.request.prefetch = <<>>
             /\ search.request.score_threshold = search.min_similarity
             /\ \A p \in search.hits :
                   Cosine(search.request.query, p.vector.dense) >= search.min_similarity
       /\ _tokenize(search.query) # <<>>
          => /\ search.sparse_query.indices # <<>>
             /\ search.request.prefetch # <<>>

\* C9 witness: a query without tokens was answered by the dense-only query
\* with a hit, a stored chunk of the category falling under the threshold.
C9_Witness ==
    /\ search.pc = "returned" /\ _tokenize(search.query) = <<>>
    /\ search.result.success /\ search.hits # {}
    /\ \E p \in store : /\ p.payload.category = search.category
                        /\ Cosine(search.request.query, p.vector.dense)
                             < search.min_similarity

\* C10: the fused query is sent exactly when the sparse query has a term;
\* it carries no score threshold, both prefetches have the limit
\* max(4 * limit, 20) and at most limit hits come back; the dense-only query
\* is sent exactly when the sparse query is empty, and its hits all meet
\* min_score.
C10_PathAndThreshold ==
    Requested
    => LET req == search.request
           fused == req.prefetch # <<>>
       IN /\ fused <=> search.sparse_query.indices # <<>>
          /\ req.limit = search.limit
          /\ Cardinality(search.hits) <= search.limit
          /\ fused => /\ req.query = "rrf"
                      /\ req.score_threshold = -1
                      /\ Len(req.prefetch) = 2
                      /\ \A i \in 1..2 :
                            req.prefetch[i].limit
                              = (IF 4 * search.limit > 20 THEN 4 * search.limit ELSE 20)
          /\ ~fused => /\ req.score_threshold = search.min_similarity
                       /\ \A p \in search.hits :
                             Cosine(req.query, p.vector.dense) >= search.min_similarity

\* C10 witness: a fused search returned, cut to its limit, a hit whose dense
\* similarity is under min_similarity.
C10_Witness ==
    /\ search.pc = "returned" /\ search.result.success
    /\ search.request.prefetch # <<>>
    /\ Cardinality(search.hits) = search.limit
    /\ \E p \in search.hits :
          Cosine(Embedding(search.query), p.vector.dense) < search.min_similarity

\* a fraction <<num, den>> greater than 0
Positive(q) == q[1] > 0 /\ q[2] > 0

\* C11: encode and encode_query return as many values as indices, the
\* indices strictly increasing and within 0..vocab_size-1, every weight
\* greater than 0, for every text and whatever the statistics.
C11_SparseWellFormed ==
    \A k \in 1..Len(probe) :
       LET sv == probe[k].sparse
       IN /\ Len(sv.indices) = Len(sv.values)
          /\ \A i \in 1..Len(sv.indices) :
                /\ sv.indices[i] \in 0..29999
                /\ i > 1 => sv.indices[i - 1] < sv.indices[i]
                /\ Positive(sv.values[i].tf) /\ Positive(sv.values[i].idf_sq)

\* C11 witness: a text whose terms are met in descending order of index was
\* encoded, to two indices, after documents holding one of them were counted.
C11_Witness ==
    /\ Len(probe) = 1
    /\ probe[1].text = <<"z","z"," ","a","b">>
    /\ Len(probe[1].sparse.indices) = 2
    /\ enc.doc_count = MaxDocs
    /\ DocFreq(enc, _hash_token(<<"a","b">>)) = enc.doc_count

\* C12: no step of an indexing run, a forced reindex, a purge, a failed run
\* or a search lowers doc_count, the total document length or a
\* document-frequency counter.
C12_StatsNeverDecrease ==
    [][(phase' # "down" /\ boots' = boots)
       => /\ enc'.doc_count >= enc.doc_count
          /\ enc'.total_doc_len >= enc.total_doc_len
          /\ \A i \in DOMAIN enc.doc_freqs :
                /\ i \in DOMAIN enc'.doc_freqs
                /\ enc'.doc_freqs[i] >= enc.doc_freqs[i]]_vars

\* C12 witness: a forced reindex has purged the points of a document that
\* was indexed before, and the statistics still count its chunks.
C12_Witness ==
    \E t \in Tasks :
       /\ tasks[t].force /\ tasks[t].pc = "extract"
       /\ tasks[t].doc \in tasks[t].had
       /\ PointsOf(store, tasks[t].doc) = {}
       /\ enc.doc_count >= Len(extract_and_chunk(files[tasks[t].doc]))
       /\ enc.doc_count > 0

\* C13: the steps of a run follow one another in the order purge, ledger
\* remove_by_path, extraction, fit_batch with the encoding of every chunk
\* under the statistics fit_batch left, embedding, one upsert of the batch,
\* mark_indexed; each step has its own effect and no other, and the ledger
\* write is the last one.
C13_StepOrder ==
    [][\A t \in Tasks :
         (OwnStep(t) /\ ~RaisedIn(t) /\ tasks[t].pc \in RunPcs)
         => LET old == tasks[t]
                new == tasks'[t]
                d == old.doc
            IN /\ old.pc = "check"
                  => /\ new.pc \in {"delete", "loop", "returned"}
                     /\ store' = store /\ ledger' = ledger /\ enc' = enc
               /\ old.pc = "delete"
                  => /\ new.pc = "remove"
                     /\ PointsOf(store', d) = {}
                     /\ store' = store \ PointsOf(store, d)
                     /\ ledger' = ledger /\ enc' = enc
               /\ old.pc = "remove"
                  => /\ new.pc = "extract"
                     /\ ledger' = {r \in ledger : r.path # PathOf(d)}
                     /\ store' = store /\ enc' = enc
               /\ old.pc = "extract"
                  => /\ store' = store /\ ledger' = ledger
                     /\ \/ new.pc \in {"loop", "returned"} /\ enc' = enc
                        \/ /\ new.pc = "embed"
                           /\ new.chunks_text # <<>>
                           /\ enc'.doc_count = enc.doc_count + Len(new.chunks_text)
                           /\ Len(new.sparse_vectors) = Len(new.chunks_text)
                           /\ \A i \in 1..Len(new.chunks_text) :
                                 new.sparse_vectors[i] = encode(enc', new.chunks_text[i])
               /\ old.pc = "embed"
                  => /\ new.pc = "upsert"
                     /\ store' = store /\ ledger' = ledger /\ enc' = enc
               /\ old.pc = "upsert"
                  => /\ new.pc = "mark"
                     /\ ledger' = ledger /\ enc' = enc
                     /\ \A i \in 1..Len(old.chunks_text) :
                           \E p \in PointsOf(store', d) :
                              /\ p.id = chunk_id(old.file_hash, i - 1)
                              /\ p.payload.chunk_index = i - 1
                     /\ \A p \in store' \ store :
                           \E i \in 1..Len(old.chunks_text) :
                              p.id = chunk_id(old.file_hash, i - 1)
               /\ old.pc = "mark"
                  => /\ new.pc \in {"loop", "returned"}
                     /\ store' = store /\ enc' = enc
                     /\ \E r \in ledger' :
                           /\ r.file_hash = old.file_hash /\ r.path = PathOf(d)
                           /\ r.chunk_count = Len(old.chunks_text)
                     /\ \A r \in ledger' \ ledger : r.file_hash = old.file_hash]_vars

\* C13 witness: a run has gone through all its steps to the ledger update,
\* and the ledger, the store and the statistics hold what it wrote.
C13_Witness ==
    \E t \in Tasks :
       /\ tasks[t].last = "indexed" /\ tasks[t].pc \in {"loop", "returned"}
       /\ \E r \in ledger : /\ r.file_hash = tasks[t].file_hash
                            /\ r.path = PathOf(tasks[t].doc)
                            /\ r.indexed_at = clock
                            /\ Cardinality(PointsOf(store, tasks[t].doc)) = r.chunk_count
                            /\ enc.doc_count >= r.chunk_count
                            /\ r.chunk_count > 1

\* the indices of the terms of a text
TermIndices(text) == {_hash_token(tok) : tok \in Range(_tokenize(text))}

\* C14: every change of the corpus statistics that an encoding can observe
\* is one whole fit_batch: all the texts of the batch counted, in doc_count,
\* in the total length and in the document frequencies, and the average
\* recomputed; the query of a search is encoded under such statistics.
C14_FitBatchAtomic ==
    [][/\ enc' # enc
          => \E t \in Tasks :
                LET batch == tasks'[t].chunks_text
                IN /\ tasks[t].pc = "extract" /\ batch # <<>>
                   /\ enc'.doc_count = enc.doc_count + Len(batch)
                   /\ enc'.total_doc_len
                        = enc.total_doc_len
                            + SumSeq([i \in 1..Len(batch) |-> Len(_tokenize(batch[i]))])
                   /\ enc'.avg_doc_len = <<enc'.total_doc_len, enc'.doc_count>>
                   /\ \A idx \in DOMAIN enc'.doc_freqs :
                         enc'.doc_freqs[idx]
                           = DocFreq(enc, idx)
                               + Cardinality({i \in 1..Len(batch) :
                                                idx \in TermIndices(batch[i])})
                   /\ \A i \in 1..Len(batch) : TermIndices(batch[i]) \subseteq DOMAIN enc'.doc_freqs
       /\ (search.pc = "embed" /\ search'.pc = "query")
          => /\ enc' = enc
             /\ search'.sparse_query = encode_query(enc, search.query)]_vars

\* C14 witness: a search has encoded its query while a run had counted a
\* batch of two chunks and not yet written its ledger record.
C14_Witness ==
    \E t \in Tasks :
       /\ tasks[t].pc \in {"embed", "upsert", "mark"}
       /\ Len(tasks[t].chunks_text) = 2
       /\ ~\E r \in ledger : r.path = PathOf(tasks[t].doc)
       /\ search.pc = "query"
       /\ search.sparse_query.indices # <<>>
       /\ search.sparse_query = encode_query(enc, search.query)
       /\ enc.doc_count >= 2

\* C15 (as claimed): when no run is in progress the ledger holds at most one
\* record for each path.
C15_OneRecordPerPath ==
    (\A t \in Tasks : tasks[t].pc \notin RunPcs)
    => \A r1, r2 \in ledger : r1.path = r2.path => r1 = r2

\* the requests posted and the waits made by the call of embed_batch
Posts == SelectSeq(embed.log, LAMBDA e : e.ev = "post")
Sleeps == SelectSeq(embed.log, LAMBDA e : e.ev = "sleep")

\* C16: a call of embed_batch posts at most 3 requests; it returns the
\* vectors of the first request that succeeds, in the order of the texts;
\* it waits 1 and then 2 time units between failed requests and not after
\* the third; after 3 failed requests it raises its hard error; for no
\* texts it returns the empty list without a request.
C16_BoundedRetry ==
    /\ Len(Posts) <= 3
    /\ Len(Sleeps) <= 2
    /\ \A k \in 1..Len(Sleeps) : Sleeps[k].n = k
    /\ \A k \in 1..Len(embed.log) :
          embed.log[k].ev = (IF k % 2 = 1 THEN "post" ELSE "sleep")
    /\ embed.pc = "returned"
          => IF embed.texts = <<>>
             THEN embed.log = <<>> /\ embed.result = <<>>
             ELSE /\ embed.log[Len(embed.log)].ev = "post"
                  /\ Len(Sleeps) = Len(Posts) - 1
                  /\ embed.result = [i \in 1..Len(embed.texts) |->
                                       Embedding(embed.texts[i])]
    /\ (embed.pc = "raised" /\ embed.error # "other")
          => /\ Len(Posts) = 3 /\ Len(Sleeps) = 2
             /\ embed.log[Len(embed.log)].ev = "post"
    /\ (embed.pc = "sleep") => embed.log[Len(embed.log)].ev = "sleep"
    /\ (embed.pc = "post") => Len(Posts) = embed.attempt /\ Len(Sleeps) = embed.attempt

\* C16 witness: three requests for a batch of two texts have failed, the
\* waits of 1 and 2 made between them, and the hard error is raised.
C16_Witness ==
    /\ embed.pc = "raised"
    /\ embed.error = "Embedding failed after 3 attempts"
    /\ Len(embed.texts) = 2
    /\ Len(Posts) = 3
    /\ [k \in 1..Len(Sleeps) |-> Sleeps[k].n] = <<1, 2>>

\* C17: when the loop of a category scan ends, every PDF of the category
\* has been attempted once, in the order found, whether or not an earlier
\* one raised, and the total returned is the sum of the chunk counts of the
\* documents that were indexed.
C17_ScanAttemptsAll ==
    [][\A t \in Tasks :
         (tasks[t].pc = "loop" /\ tasks[t].queue = <<>> /\ OwnStep(t))
         => LET done == tasks[t].done
            IN /\ [k \in 1..Len(done) |-> done[k].doc]
                    = pdf_files(DOMAIN files, tasks[t].category)
               /\ tasks[t].total_chunks
                    = SumSeq([k \in 1..Len(done) |->
                                IF done[k].how = "indexed"
                                THEN Len(extract_and_chunk(files[done[k].doc]))
                                ELSE 0])
               /\ {d \in tasks[t].failed : d.category = tasks[t].category}
                    = {done[k].doc : k \in {i \in 1..Len(done) :
                                         done[i].how = "raised"}}
               /\ tasks[t].kind = "reindex_cat"
                    => tasks'[t].result.chunks_indexed = tasks[t].total_chunks]_vars

\* C17 witness: a scan of a category of two files has ended; the first file
\* raised, the second was indexed, and the total is the count of the second.
C17_Witness ==
    \E t \in Tasks :
       /\ tasks[t].pc \in {"cats", "returned"}
       /\ Len(tasks[t].done) = 2
       /\ tasks[t].done[1].how = "raised"
       /\ tasks[t].done[2].how = "indexed"
       /\ tasks[t].total_chunks = tasks[t].done[2].chunks
       /\ tasks[t].total_chunks > 0

\* C18 (as claimed): the answer of a category reindex in which a document
\* failed reports the failure: it is not the answer of a scan without
\* failures.
C18_FailuresReported ==
    \A t \in Tasks :
       (tasks[t].kind = "reindex_cat" /\ tasks[t].pc = "returned"
          /\ tasks[t].failed # {})
       => (~tasks[t].result.success \/ tasks[t].result.error # "")

\* C19: every run started by a reindex tool, for one document or for a
\* category, has force set; a run with force set never asks the ledger and
\* never skips: also when its hash is in the ledger it purges the points
\* and the ledger record of the document, counts the chunks again in the
\* statistics, upserts the chunk ids of the hash and writes the record anew.
C19_ForceBypassesSkip ==
    [][\A t \in Tasks :
         /\ (tasks'[t].kind \in {"reindex_doc", "reindex_cat"} /\ tasks'[t].pc \in RunPcs)
            => tasks'[t].force /\ tasks'[t].pc # "check"
         /\ (OwnStep(t) /\ ~RaisedIn(t) /\ tasks[t].force /\ tasks[t].pc \in RunPcs)
            => LET old == tasks[t]
                   new == tasks'[t]
                   d == old.doc
               IN /\ old.pc # "check"
                  /\ new.pc \in {"loop", "returned"} => new.last \in {"indexed", "empty"}
                  /\ old.pc = "delete" => new.pc = "remove" /\ PointsOf(store', d) = {}
                  /\ old.pc = "remove"
                       => new.pc = "extract" /\ ~\E r \in ledger' : r.path = PathOf(d)
                  /\ (old.pc = "extract" /\ new.pc = "embed")
                       => enc'.doc_count = enc.doc_count + Len(new.chunks_text)
                  /\ old.pc = "mark"
                       => /\ {p.id : p \in PointsOf(store', d)}
                               = {chunk_id(old.file_hash, i - 1) :
                                    i \in 1..Len(old.chunks_text)}
                          /\ \E r \in ledger' :
                                /\ r.file_hash = old.file_hash /\ r.path = PathOf(d)
                                /\ r.indexed_at = clock' /\ clock' > clock]_vars

\* C19 witness: a category reindex has indexed again a file whose hash was
\* in the ledger when the run began, and the record carries the new time.
C19_Witness ==
    \E t \in Tasks :
       /\ tasks[t].kind = "reindex_cat" /\ tasks[t].last = "indexed"
       /\ tasks[t].pc \in {"loop", "returned"}
       /\ tasks[t].file_hash \in tasks[t].prior
       /\ \E r \in ledger : /\ r.file_hash = tasks[t].file_hash
                            /\ r.path = PathOf(tasks[t].doc)
                            /\ r.indexed_at = clock /\ clock > 1
       /\ enc.doc_count > Cardinality(store)

\* the process is up with its retrieval disabled, or the step is a startup
\* that fails (vector store unreachable, or ledger not opened)
StartupFailed ==
    \/ phase = "disabled"
    \/ phase = "down" /\ phase' = "disabled"
    \/ phase = "down" /\ phase' = "down" /\ boots' # boots

\* C20: from a startup that finds the vector store unreachable or cannot
\* open the ledger, for as long as the process lives, the subsystem is not
\* ready: no file is hashed, no run begins, store, ledger and statistics
\* stay as they are, no tool is registered and _require_ready raises.
C20_DisabledAtStartup ==
    [][StartupFailed
       => /\ phase' \in {"disabled", "down"}
          /\ nruns' = nruns /\ store' = store /\ ledger' = ledger /\ clock' = clock
          /\ enc'.doc_count = 0
          /\ \A t \in Tasks : tasks'[t] = IdleTask
          /\ search' = IdleSearch
          /\ phase' = "disabled"
               => /\ ~_ready'
                  /\ registered_tools' = {}
                  /\ _require_ready' = "RuntimeError: RAG subsystem not initialized"]_vars

\* C20 witness: after a restart the vector store was unreachable; the files
\* indexed by the process before stay indexed, and nothing runs.
C20_Witness ==
    /\ phase = "disabled" /\ boots = 2
    /\ ledger # {} /\ store # {}
    /\ \E d \in DOMAIN files :
          ~\E r \in ledger : r.file_hash = compute_file_hash(files[d])
    /\ \A t \in Tasks : tasks[t] = IdleTask

\* C21: under the same statistics, a text with more occurrences of one term
\* (its length grown by them, the other terms as they were) never gets a
\* lower tf component for that term from encode.
C21_TfMonotone ==
    \A k \in 1..Len(probe) :
       probe[k].before[1] * probe[k].after[2] <= probe[k].after[1] * probe[k].before[2]

\* C21 witness: a term the text already held twice got two more occurrences,
\* under statistics of three documents whose average length exceeds 1, and
\* its tf component grew.
C21_Witness ==
    /\ Len(probe) = 1
    /\ probe[1].text = <<"a","a"," ","4","g","x"," ","a","a">>
    /\ probe[1].term = <<"a","a">> /\ probe[1].more = 2
    /\ probe[1].doc_count = MaxDocs
    /\ probe[1].avg_doc_len[1] > probe[1].avg_doc_len[2]
    /\ probe[1].before[1] > 0
    /\ probe[1].before[1] * probe[1].after[2] < probe[1].after[1] * probe[1].before[2]

\* the date the keyword stands for on the day today
ExpectedDate(keyword, today) ==
    CASE keyword = Today -> today
      [] keyword = Tomorrow -> FromOrdinal(ToOrdinal(today) + 1)
      [] keyword = Yesterday -> FromOrdinal(ToOrdinal(today) - 1)
      [] keyword = NextWeek -> FromOrdinal(ToOrdinal(today) + 7)
      [] keyword = NextMonth ->
           IF today.month = 12 THEN Date(today.year + 1, 1, 1)
           ELSE Date(today.year, today.month + 1, 1)
      [] keyword = NextYear -> Date(today.year + 1, today.month, today.day)

\* C22: at every instant, parse_time_string of a keyword returns the UTC
\* midnight, in RFC3339, of the date the keyword stands for, counted from
\* the calendar date in America/New_York: today, tomorrow, yesterday,
\* next_week (7 days on), next_month (the first of the following month),
\* next_year (the same month and day a year on).
C22_KeywordDates ==
    \A k \in 1..Len(probe) :
       (probe[k].op = "parse_time_string" /\ Lower(probe[k].time_str) \in Keywords)
          => /\ probe[k].result.raised = ""
             /\ ~probe[k].result.none
             /\ probe[k].result.value
                  = date_isoformat(ExpectedDate(Lower(probe[k].time_str),
                                                NowEastern(probe[k].now).date))
                      \o <<"T","0","0",":","0","0",":","0","0","Z">>

\* the wall time is read by the clocks of New York at some instant
WallExists(w) == \E o \in {240, 300} : NowEastern(Shift(w, o)) = w

\* C23: parse_iso_time_string returns a date alone and a datetime ending in
\* Z as they are; a datetime without offset is read as the wall time of
\* America/New_York, and a datetime with or without offset becomes the
\* string YYYY-MM-DDTHH:MM:SSZ of the same instant in UTC (9:00 without
\* offset is 14:00Z in winter and 13:00Z in summer).
C23_IsoNormalised ==
    \A k \in 1..Len(probe) :
       probe[k].op = "parse_iso_time_string" =>
          LET s == probe[k].time_str
              r == probe[k].result
              dt == datetime_fromisoformat(s)
              out == datetime_fromisoformat(r.value)
              wall == At(dt.date, dt.minute)
              utc == At(out.date, out.minute)
          IN /\ r.raised = ""
             /\ (Len(s) = 10 /\ date_fromisoformat(s).ok) => r.value = s
             /\ (Len(s) > 10 /\ dt.ok /\ EndsWith(s, <<"Z">>)) => r.value = s
             /\ (Len(s) > 10 /\ dt.ok /\ ~EndsWith(s, <<"Z">>))
                  => /\ Len(r.value) = 20 /\ EndsWith(r.value, <<"Z">>) /\ out.ok
                     /\ out.second = dt.second
                     /\ dt.tzinfo.kind = "fixed" => Shift(utc, dt.tzinfo.offset) = wall
                     /\ dt.tzinfo.kind = "none"
                          => /\ \E o \in {240, 300} : utc = Shift(wall, o)
                             /\ WallExists(wall) => NowEastern(utc) = wall
             /\ s = <<"2","0","2","6","-","0","2","-","2","3","T","0","9",":","0","0",":","0","0">>
                  => r.value = <<"2","0","2","6","-","0","2","-","2","3","T","1","4",":","0","0",
                                 ":","0","0","Z">>
             /\ s = <<"2","0","2","6","-","0","6","-","1","5","T","0","9",":","0","0",":","0","0">>
                  => r.value = <<"2","0","2","6","-","0","6","-","1","5","T","1","3",":","0","0",
                                 ":","0","0","Z">>

\* C23 witness: an evening in summer without offset, read as New York time,
\* came out as the small hours of the next day in UTC.
C23_Witness ==
    /\ Len(probe) = 1
    /\ probe[1].op = "parse_iso_time_string"
    /\ probe[1].time_str = <<"2","0","2","6","-","0","6","-","1","5","T","2","3",":","5","9",
                             ":","5","9">>
    /\ probe[1].result.value = <<"2","0","2","6","-","0","6","-","1","6","T","0","3",":","5","9",
                                 ":","5","9","Z">>

\* the ledger records of the path of the document d
RecordsOf(led, d) == {r \in led : r.path = PathOf(d)}

\* C24: a step of a run on one document leaves the stored chunks and the
\* ledger record of every other document as they were, whatever the two
\* files hold, byte-identical files included.
C24_OtherDocumentsUntouched ==
    [][\A t \in Tasks :
          (OwnStep(t) /\ tasks[t].pc \in RunPcs)
             => \A e \in DOMAIN files :
                   e # tasks[t].doc
                      => /\ PointsOf(store', e) = PointsOf(store, e)
                         /\ RecordsOf(ledger', e) = RecordsOf(ledger, e)]_vars

\* C25: when the startup scan of all categories ends without a failed run,
\* every file with extractable content has a ledger record under its own
\* path and its chunks under its own category and file name, a file with
\* the bytes of a file indexed elsewhere included.
C25_ScanIndexesEveryFile ==
    [][(phase = "scan" /\ phase' = "serving" /\ tasks[1].failed = {})
          => \A d \in DOMAIN files :
                extract_and_chunk(files[d]) # <<>>
                   => /\ RecordsOf(ledger', d) # {}
                      /\ Cardinality(PointsOf(store', d)) = Len(extract_and_chunk(files[d]))]_vars

\* SUM(chunk_count) over the records of the ledger
RECURSIVE SumChunkCount(_)
SumChunkCount(led) ==
    IF led = {} THEN 0
    ELSE LET r == CHOOSE r \in led : TRUE
         IN r.chunk_count + SumChunkCount(led \ {r})

\* C26: when the startup scan of a restarted process ends (ledger and store
\* kept, sparse encoder new), doc_count is at least the sum of chunk_count
\* over the ledger records.
C26_StatsAfterRestart ==
    [][(phase = "scan" /\ phase' = "serving" /\ boots = 2)
          => enc'.doc_count >= SumChunkCount(ledger')]_vars

\* C27: whatever the statistics, those right after construction included,
\* encode returns one entry for each distinct hashed index of the tokens of
\* the text and no other, so it returns nothing only for a text without
\* tokens.
C27_OneEntryPerIndex ==
    \A k \in 1..Len(probe) :
       LET sv == probe[k].sparse
       IN /\ Range(sv.indices) = TermIndices(probe[k].text)
          /\ Len(sv.indices) = Cardinality(TermIndices(probe[k].text))
          /\ sv.indices = <<>> <=> _tokenize(probe[k].text) = <<>>

\* C27 witness: a text of two terms was encoded to two entries under the
\* statistics of a new encoder, which has counted no document.
C27_Witness ==
    /\ Len(probe) = 1 /\ probe[1].op = "encode"
    /\ enc = NewEncoder
    /\ probe[1].text = <<"z","z"," ","a","b">>
    /\ Len(probe[1].sparse.indices) = 2

\* the texts of the batch that hold a term of the index
Holding(texts, idx) == {i \in 1..Len(texts) : idx \in TermIndices(texts[i])}

\* the tokens of the batch
RECURSIVE TokensIn(_)
TokensIn(texts) ==
    IF texts = <<>> THEN 0 ELSE Len(_tokenize(Head(texts))) + TokensIn(Tail(texts))

\* C28: fit_batch(texts) adds the number of texts to doc_count (texts
\* without tokens included), the number of tokens to the total length and,
\* to the document frequency of each index, the number of texts of the batch
\* that hold it (one per text however often the term repeats);
\* avg_doc_length is then total length / doc_count, and no document
\* frequency exceeds doc_count.
C28_FitBatchCounts ==
    [][enc' # enc
         => /\ \E texts \in EncBatches :
                 /\ enc'.doc_count = enc.doc_count + Len(texts)
                 /\ enc'.total_doc_len = enc.total_doc_len + TokensIn(texts)
                 /\ \A idx \in DOMAIN enc'.doc_freqs \cup DOMAIN enc.doc_freqs :
                       DocFreq(enc', idx)
                         = DocFreq(enc, idx) + Cardinality(Holding(texts, idx))
            /\ enc'.avg_doc_len[1] * enc'.doc_count
                 = enc'.total_doc_len * enc'.avg_doc_len[2]
            /\ enc'.avg_doc_len[2] > 0
            /\ \A idx \in DOMAIN enc'.doc_freqs : enc'.doc_freqs[idx] <= enc'.doc_count]_vars

\* C28 witness: three texts were counted, one without tokens, one with a
\* repeated term (three tokens of one index) and one of one term: four
\* tokens in all, each index in one document.
C28_Witness ==
    /\ enc.doc_count = 3 /\ enc.total_doc_len = 4
    /\ DocFreq(enc, _hash_token(<<"a","a">>)) = 1
    /\ DocFreq(enc, _hash_token(<<"a","b">>)) = 1
    /\ enc.avg_doc_len = <<4, 3>>

\* the maximal runs of characters of a..z and 0..9 in s, in order (run is
\* the run in progress)
RECURSIVE MaximalRuns(_, _)
MaximalRuns(s, run) ==
    IF s = <<>> THEN (IF run = <<>> THEN <<>> ELSE <<run>>)
    ELSE IF InTokenClass(Head(s)) THEN MaximalRuns(Tail(s), Append(run, Head(s)))
    ELSE (IF run = <<>> THEN <<>> ELSE <<run>>) \o MaximalRuns(Tail(s), <<>>)

\* C29: _tokenize returns, in the order of the text, the maximal runs of
\* ASCII letters and digits of the lowercased text that are at least 2
\* long, whatever stands beside a run (punctuation, underscore, non-ASCII
\* letter).
C29_TokensAreMaximalRuns ==
    \A k \in 1..Len(probe) :
       probe[k].op = "_tokenize"
          => probe[k].tokens
               = SelectSeq(MaximalRuns(Lower(probe[k].text), <<>>), LAMBDA run : Len(run) >= 2)

\* the characters of s that are no white space, in order
Letters(s) == SelectSeq(s, LAMBDA c : ~IsSpace(c))

\* the chunks one after the other
RECURSIVE Joined(_)
Joined(chunks) == IF chunks = <<>> THEN <<>> ELSE Head(chunks) \o Joined(Tail(chunks))

\* C30: the chunks of the fallback chunker are not empty, hold the
\* paragraphs in the order of the content, and are at most chunk_max_chars
\* long, save a chunk that is one paragraph longer than chunk_max_chars.
C30_FallbackChunks ==
    \A k \in 1..Len(probe) :
       probe[k].op = "extract_and_chunk"
          => LET paras == SplitParagraphs(probe[k].content, <<>>)
                 limit == probe[k].chunk_max_chars
             IN /\ \A i \in 1..Len(probe[k].chunks) : probe[k].chunks[i] # <<>>
                /\ Letters(Joined(probe[k].chunks)) = Letters(probe[k].content)
                /\ \A i \in 1..Len(probe[k].chunks) :
                      \/ Len(probe[k].chunks[i]) <= limit
                      \/ \E p \in 1..Len(paras) :
                            Len(paras[p]) > limit /\ probe[k].chunks[i] = Strip(paras[p])
====
